---- MODULE Spec2Model ----
(***************************************************************************)
(* Turn-based combat (TextGame/game_engine.py), the behaviour-tree         *)
(* interpreter (TextGame/bt_executor.py, TextGame/bt_nodes.py), the DSL    *)
(* parser (main.py) and the run loop (runner_mastery.py).                  *)
(*                                                                         *)
(* Text is modelled at token level: a line is a sequence of tokens, a      *)
(* token is one space " ", one colon ":", one parenthesis or one word.     *)
(* Python's random module is the nondeterministic input `rnd` of a turn.   *)
(***************************************************************************)
EXTENDS Integers, Sequences, FiniteSets, TLC

VARIABLES
    state,      \* GameState (DungeonGame.state)
    game_over,  \* DungeonGame.game_over
    victory,    \* DungeonGame.victory
    result,     \* what the last take_action returned: "none" before any call
    tree,       \* the BTNode tree held by the BTExecutor
    seed,       \* the pinned random source used once the free turns are over
    log,        \* what the last handler did (its returned dictionaries)
    pc,         \* which specification's run this is, and where it stands
    turn        \* run_game's local turn counter

vars == <<state, game_over, victory, result, tree, seed, log, pc, turn>>

----------------------------------------------------------------------------
(* Bounds *)

\* turns in which the random source is unconstrained; afterwards it is pinned
FreeTurns == 1

\* number of pinned random sources a run may be given
SeedCount == 2

\* the largest turn_count among the states a tree is evaluated against
MaxTurnSeen == 2

----------------------------------------------------------------------------
(* Program constants *)

TURN_LIMIT == 35
HistoryLen == 5
PlayerMaxHP == 100
PlayerBaseAttack == 15
PlayerDefense == 8
EnemyMaxHP == 180
EnemyBaseAttack == 15
EnemyDefense == 8
ReferenceAttack == 15
BurnDamage == 5
HealAmount == 45
HealCost == 30
HealCooldownTurns == 3
EnemyHealAmount == 40
ElementTurns == 3
PermanentDuration == 999

Elements == {"Fire", "Ice", "Lightning", "Neutral"}
PlayerActions == {"Attack", "PowerStrike", "FireSpell", "IceSpell",
                  "LightningSpell", "Defend", "Heal", "Scan"}
EnemyTypes == {"FireGolem", "IceWraith", "ThunderDrake"}
None == "None"

NoStatus == << >>

Min(a, b) == IF a < b THEN a ELSE b
Max(a, b) == IF a > b THEN a ELSE b

----------------------------------------------------------------------------
(* Resources *)

\* Resources(...) as DungeonGame.__init__ sets them per enemy type
EnemyResources(t) ==
    CASE t = "FireGolem"    -> [tp |-> 50, mp |-> 40, max_tp |-> 100, max_mp |-> 40,
                                tp_regen |-> 20, mp_regen |-> 8]
      [] t = "IceWraith"    -> [tp |-> 50, mp |-> 100, max_tp |-> 100, max_mp |-> 100,
                                tp_regen |-> 12, mp_regen |-> 15]
      [] t = "ThunderDrake" -> [tp |-> 50, mp |-> 70, max_tp |-> 100, max_mp |-> 70,
                                tp_regen |-> 15, mp_regen |-> 12]

PlayerResources ==
    [tp |-> 50, mp |-> 100, max_tp |-> 100, max_mp |-> 100, tp_regen |-> 15, mp_regen |-> 12]

Regenerate(r) ==
    [r EXCEPT !.tp = Min(r.max_tp, r.tp + r.tp_regen),
              !.mp = Min(r.max_mp, r.mp + r.mp_regen)]

\* spend_tp / spend_mp: the pool after the call and whether it succeeded
SpendTP(r, amount) ==
    IF r.tp >= amount THEN [res |-> [r EXCEPT !.tp = r.tp - amount], ok |-> TRUE]
                      ELSE [res |-> r, ok |-> FALSE]

\* spend_mp without the balance test
SpendMP_Overdraw(r, amount) == [res |-> [r EXCEPT !.mp = r.mp - amount], ok |-> TRUE]

SpendMP(r, amount) ==
    IF r.mp >= amount THEN [res |-> [r EXCEPT !.mp = r.mp - amount], ok |-> TRUE]
                      ELSE [res |-> r, ok |-> FALSE]

GainTP(r, amount) == [r EXCEPT !.tp = Min(r.max_tp, r.tp + amount)]

----------------------------------------------------------------------------
(* CombatStats *)

\* take_damage that forgets the defense
TakeDamage_NoDefense(hp, defense, damage) ==
    [hp |-> Max(0, hp - Max(0, damage)), actual |-> Max(0, damage)]

\* take_damage: the health left and the damage actually taken
TakeDamage(hp, defense, damage) ==
    LET actual == Max(0, damage - defense)
    IN  [hp |-> Max(0, hp - actual), actual |-> actual]

\* heal without the cap at max_hp
HealHP_Uncapped(hp, max_hp, amount) == hp + amount

\* heal: the health after it
HealHP(hp, max_hp, amount) == Min(max_hp, hp + amount)

IsAlive(hp) == hp > 0

\* hp_percentage() > t and hp_percentage() < t, on integers
HpPctAbove(hp, max_hp, t) == hp * 100 > t * max_hp
HpPctBelow(hp, max_hp, t) == hp * 100 < t * max_hp

----------------------------------------------------------------------------
(* Status effects *)

Effect(a, d, v) == [ailment |-> a, duration |-> d, value |-> v]

HasStatus(list, a) == \E i \in DOMAIN list : list[i].ailment = a

RECURSIVE Without(_, _)
Without(list, a) ==
    IF list = << >> THEN << >>
    ELSE IF Head(list).ailment = a THEN Without(Tail(list), a)
         ELSE <<Head(list)>> \o Without(Tail(list), a)

RemoveStatus(list, a) == Without(list, a)

\* add_status that keeps the earlier instance
AddStatus_Stacking(list, e) == Append(list, e)

\* add_status: the same ailment is removed, then the effect is appended
AddStatus(list, e) == Append(Without(list, e.ailment), e)

\* tick_status_effects: every effect loses one turn and leaves at zero
RECURSIVE Ticked(_)
Ticked(list) ==
    IF list = << >> THEN << >>
    ELSE LET e == [Head(list) EXCEPT !.duration = Head(list).duration - 1]
         IN  IF e.duration <= 0 THEN Ticked(Tail(list))
             ELSE <<e>> \o Ticked(Tail(list))

\* the damage events tick_status_effects returns: one of 5 per Burn
RECURSIVE DotEvents(_)
DotEvents(list) ==
    IF list = << >> THEN << >>
    ELSE (IF Head(list).ailment = "Burn" THEN <<BurnDamage>> ELSE << >>)
         \o DotEvents(Tail(list))

RECURSIVE ApplyDots(_, _, _)
ApplyDots(hp, defense, events) ==
    IF events = << >> THEN hp
    ELSE ApplyDots(TakeDamage(hp, defense, Head(events)).hp, defense, Tail(events))

----------------------------------------------------------------------------
(* Elements *)

ELEMENTAL_WEAKNESS(e) ==
    CASE e = "Fire"      -> "Ice"
      [] e = "Ice"       -> "Lightning"
      [] e = "Lightning" -> "Fire"
      [] OTHER           -> None

\* a multiplier that is 1.5 both ways on a weakness pair
calculate_elemental_multiplier_Symmetric(attack_element, target_element) ==
    IF attack_element = "Neutral" \/ target_element = "Neutral"
    THEN [num |-> 1, den |-> 1]
    ELSE IF ELEMENTAL_WEAKNESS(target_element) = attack_element
            \/ ELEMENTAL_WEAKNESS(attack_element) = target_element
    THEN [num |-> 3, den |-> 2]
    ELSE [num |-> 1, den |-> 1]

\* calculate_elemental_multiplier as a fraction num/den
calculate_elemental_multiplier(attack_element, target_element) ==
    IF attack_element = "Neutral" \/ target_element = "Neutral"
    THEN [num |-> 1, den |-> 1]
    ELSE IF ELEMENTAL_WEAKNESS(target_element) = attack_element
    THEN [num |-> 3, den |-> 2]
    ELSE IF ELEMENTAL_WEAKNESS(attack_element) = target_element
    THEN [num |-> 1, den |-> 2]
    ELSE [num |-> 1, den |-> 1]

----------------------------------------------------------------------------
(* Damage *)

\* int(x * num/den) for the positive values the engine uses
IntMul(x, num, den) == (x * num) \div den

\* int(damage * (attack_stat / 15)); in binary floating point 21/15 is a
\* little below 1.4, so 45 * (21/15) truncates to 62
ScaleByAttack(damage, attack_stat) ==
    IF damage = 45 /\ attack_stat = 21 THEN 62
    ELSE (damage * attack_stat) \div ReferenceAttack

PlayerAttackStat(st) ==
    IF HasStatus(st.player_status, "AttackDown")
    THEN IntMul(PlayerBaseAttack, 7, 10)
    ELSE PlayerBaseAttack

EnemyAttackStat(st) ==
    LET a1 == IF HasStatus(st.enemy_status, "RageBuff")
              THEN IntMul(EnemyBaseAttack, 14, 10) ELSE EnemyBaseAttack
    IN  IF HasStatus(st.enemy_status, "Enrage") THEN IntMul(a1, 3, 2) ELSE a1

\* _calculate_damage up to the elemental multiplier
ScaledDamage(st, base_damage, element, attacker) ==
    LET attack_stat == IF attacker = "player" THEN PlayerAttackStat(st)
                       ELSE EnemyAttackStat(st)
        m == IF attacker = "player"
             THEN calculate_elemental_multiplier(element, st.enemy_element)
             ELSE calculate_elemental_multiplier(element, "Neutral")
    IN  IntMul(ScaleByAttack(base_damage, attack_stat), m.num, m.den)

\* _calculate_damage from the paralyze roll on: a miss, Storm Charge, max(0, .)
RolledDamage(st, damage, element, attacker, miss) ==
    IF attacker = "player" /\ HasStatus(st.player_status, "Paralyze") /\ miss
    THEN [damage |-> 0, st |-> st]
    ELSE IF attacker = "enemy" /\ HasStatus(st.enemy_status, "StormCharge")
            /\ element = "Lightning"
    THEN [damage |-> Max(0, damage * 2),
          st |-> [st EXCEPT !.enemy_status = RemoveStatus(@, "StormCharge")]]
    ELSE [damage |-> Max(0, damage), st |-> st]

\* _calculate_damage: the damage and the state (Storm Charge is used up).
\* miss is the outcome of the paralyze roll, read only by a paralyzed player.
CalculateDamage(st, base_damage, element, attacker, miss) ==
    RolledDamage(st, ScaledDamage(st, base_damage, element, attacker), element, attacker, miss)

----------------------------------------------------------------------------
(* Player action *)

PlayerResult(action) ==
    [action |-> action, success |-> FALSE, damage |-> 0, heal |-> 0,
     cost_tp |-> 0, cost_mp |-> 0, status_applied |-> None, skipped |-> FALSE]

\* the tail of execute_player_action: damage goes through enemy.take_damage;
\* b is the state and result the action's branch left
ApplyDamageToEnemy(b) ==
    IF b.res.damage > 0
    THEN LET td == TakeDamage(b.st.enemy_hp, EnemyDefense, b.res.damage)
         IN  [st |-> [b.st EXCEPT !.enemy_hp = td.hp],
              res |-> [b.res EXCEPT !.damage = td.actual]]
    ELSE b

\* a successful action whose damage _calculate_damage returned as cd
Hit(action, cd, cost_tp, cost_mp) ==
    [st |-> cd.st,
     res |-> [PlayerResult(action) EXCEPT !.success = TRUE, !.damage = cd.damage,
                                          !.cost_tp = cost_tp, !.cost_mp = cost_mp]]

\* player_resources.gain_tp after the action
WithTP(h, amount) == [st |-> [h.st EXCEPT !.player_res = GainTP(@, amount)], res |-> h.res]

\* if random.random() < 0.25: the spell's ailment lands on the enemy
WithAilment(h, proc, ailment, ail_dur, ail_val) ==
    IF proc
    THEN [st |-> [h.st EXCEPT !.enemy_status = AddStatus(@, Effect(ailment, ail_dur, ail_val))],
          res |-> [h.res EXCEPT !.status_applied = ailment]]
    ELSE h

\* a player spell: cost 20 MP, base 28, 25% chance of its ailment
PlayerSpell(st, action, element, ailment, ail_dur, ail_val, rnd) ==
    LET sp == SpendMP(st.player_res, 20)
    IN  IF sp.ok
        THEN WithAilment(Hit(action,
                             CalculateDamage([st EXCEPT !.player_res = sp.res], 28, element,
                                             "player", rnd.miss),
                             0, 20),
                         rnd.proc_player, ailment, ail_dur, ail_val)
        ELSE [st |-> st, res |-> PlayerResult(action)]

\* the branch of execute_player_action for each action, before damage lands
PlayerActionBody(st, action, rnd) ==
    CASE action = "Attack" ->
           WithTP(Hit(action, CalculateDamage(st, 15, "Neutral", "player", rnd.miss), 0, 0), 15)
      [] action = "PowerStrike" ->
           LET sp == SpendTP(st.player_res, 30)
           IN  IF sp.ok
               THEN Hit(action,
                        CalculateDamage([st EXCEPT !.player_res = sp.res], 45, "Neutral",
                                        "player", rnd.miss),
                        30, 0)
               ELSE [st |-> st, res |-> PlayerResult(action)]
      [] action = "FireSpell" -> PlayerSpell(st, action, "Fire", "Burn", 3, 5, rnd)
      [] action = "IceSpell" -> PlayerSpell(st, action, "Ice", "Freeze", 1, 0, rnd)
      [] action = "LightningSpell" -> PlayerSpell(st, action, "Lightning", "Paralyze", 2, 0, rnd)
      [] action = "Defend" ->
           [st |-> [st EXCEPT !.player_status = AddStatus(@, Effect("Defending", 1, 0)),
                              !.player_res = GainTP(@, 20)],
            res |-> [PlayerResult(action) EXCEPT !.success = TRUE]]
      [] action = "Heal" ->
           LET sp == SpendMP(st.player_res, HealCost)
               hp == HealHP(st.player_hp, PlayerMaxHP, HealAmount)
           IN  IF st.heal_cooldown > 0
               THEN [st |-> st, res |-> PlayerResult(action)]
               ELSE IF sp.ok
               THEN [st |-> [st EXCEPT !.player_res = sp.res, !.player_hp = hp,
                                       !.heal_cooldown = HealCooldownTurns],
                     res |-> [PlayerResult(action) EXCEPT !.success = TRUE,
                                 !.cost_mp = HealCost, !.heal = hp - st.player_hp]]
               ELSE [st |-> st, res |-> PlayerResult(action)]
      [] action = "Scan" ->
           LET sp == SpendMP(st.player_res, 15)
           IN  IF sp.ok
               THEN [st |-> [st EXCEPT !.player_res = sp.res, !.scanned = TRUE],
                     res |-> [PlayerResult(action) EXCEPT !.success = TRUE, !.cost_mp = 15]]
               ELSE [st |-> st, res |-> PlayerResult(action)]

\* execute_player_action: the state after it and the result dictionary
ExecutePlayerAction(st, action, rnd) ==
    IF HasStatus(st.player_status, "Freeze")
    THEN [st |-> [st EXCEPT !.player_status = RemoveStatus(@, "Freeze")],
          res |-> [PlayerResult(action) EXCEPT !.skipped = TRUE]]
    ELSE ApplyDamageToEnemy(PlayerActionBody(st, action, rnd))

----------------------------------------------------------------------------
(* Enemy action selector *)

\* the options random.choices draws from, per enemy type and HP phase
ActionTable(type, hp) ==
    CASE type = "FireGolem" ->
           IF HpPctAbove(hp, EnemyMaxHP, 60) THEN <<"Slam", "HeavySlam", "FireSpell", "RageBuff">>
           ELSE IF HpPctAbove(hp, EnemyMaxHP, 30) THEN <<"HeavySlam", "RageBuff", "Slam", "FireSpell">>
           ELSE <<"HeavySlam", "FireSpell", "Slam">>
      [] type = "IceWraith" ->
           IF HpPctAbove(hp, EnemyMaxHP, 60) THEN <<"IceSpell", "FrostTouch", "Debuff", "Heal">>
           ELSE IF HpPctAbove(hp, EnemyMaxHP, 30) THEN <<"Heal", "IceSpell", "Debuff", "FrostTouch">>
           ELSE <<"Heal", "IceSpell", "FrostTouch">>
      [] type = "ThunderDrake" ->
           IF HpPctAbove(hp, EnemyMaxHP, 60) THEN <<"ClawSwipe", "LightningSpell", "TailSweep", "ThunderStrike">>
           ELSE IF HpPctAbove(hp, EnemyMaxHP, 35) THEN <<"LightningSpell", "ThunderStrike", "ClawSwipe", "TailSweep">>
           ELSE <<"StormCharge", "LightningSpell", "ThunderStrike">>
      [] OTHER -> <<"Slam">>

\* the status a first entry into the last phase grants, None if there is none
PhaseStatus(type, hp) ==
    IF type = "FireGolem" /\ ~HpPctAbove(hp, EnemyMaxHP, 30) THEN "Enrage"
    ELSE IF type = "IceWraith" /\ ~HpPctAbove(hp, EnemyMaxHP, 30) THEN "FrostAura"
    ELSE None

\* _select_enemy_action: sel is the draw of random.choices
SelectEnemyAction(st, sel) ==
    LET table == ActionTable(st.enemy_type, st.enemy_hp)
        grant == PhaseStatus(st.enemy_type, st.enemy_hp)
    IN  [action |-> table[(sel % Len(table)) + 1],
         st |-> IF grant # None /\ ~HasStatus(st.enemy_status, grant)
                THEN [st EXCEPT !.enemy_status = AddStatus(@, Effect(grant, PermanentDuration, 0))]
                ELSE st]

TELEGRAPHED_ACTIONS ==
    {"HeavySlam", "ThunderStrike", "StormCharge", "RageBuff", "Heal", "Debuff", "FrostAura"}

\* telegraph_enemy_action without the filter on TELEGRAPHED_ACTIONS
TelegraphEnemyAction_Unfiltered(st, sel) ==
    IF ~IsAlive(st.enemy_hp) THEN [st |-> st, action |-> ""]
    ELSE IF HasStatus(st.enemy_status, "Freeze")
    THEN [st |-> [st EXCEPT !.telegraphed_action = "Frozen"], action |-> "Frozen"]
    ELSE LET c == SelectEnemyAction(st, sel)
         IN  [st |-> [c.st EXCEPT !.telegraphed_action = c.action], action |-> c.action]

\* telegraph_enemy_action: the state after it and the action it returns
TelegraphEnemyAction(st, sel) ==
    IF ~IsAlive(st.enemy_hp) THEN [st |-> st, action |-> ""]
    ELSE IF HasStatus(st.enemy_status, "Freeze")
    THEN [st |-> [st EXCEPT !.telegraphed_action = "Frozen"], action |-> "Frozen"]
    ELSE LET c == SelectEnemyAction(st, sel)
         IN  [st |-> [c.st EXCEPT !.telegraphed_action =
                                   IF c.action \in TELEGRAPHED_ACTIONS THEN c.action ELSE None],
              action |-> c.action]

----------------------------------------------------------------------------
(* Enemy actions *)

EnemyResult(action) ==
    [action |-> action, damage |-> 0, heal |-> 0, status_applied |-> None, spent |-> FALSE]

\* which pool an enemy action draws on and what it costs; cost 0: not an
\* action of that enemy type
EnemyCost(type, action) ==
    CASE type = "FireGolem" /\ action = "Slam"              -> [pool |-> "tp", cost |-> 10]
      [] type = "FireGolem" /\ action = "HeavySlam"         -> [pool |-> "tp", cost |-> 30]
      [] type = "FireGolem" /\ action = "FireSpell"         -> [pool |-> "mp", cost |-> 20]
      [] type = "FireGolem" /\ action = "RageBuff"          -> [pool |-> "mp", cost |-> 25]
      [] type = "IceWraith" /\ action = "FrostTouch"        -> [pool |-> "tp", cost |-> 10]
      [] type = "IceWraith" /\ action = "IceSpell"          -> [pool |-> "mp", cost |-> 20]
      [] type = "IceWraith" /\ action = "Heal"              -> [pool |-> "mp", cost |-> 30]
      [] type = "IceWraith" /\ action = "Debuff"            -> [pool |-> "mp", cost |-> 20]
      [] type = "ThunderDrake" /\ action = "ClawSwipe"      -> [pool |-> "tp", cost |-> 10]
      [] type = "ThunderDrake" /\ action = "LightningSpell" -> [pool |-> "mp", cost |-> 20]
      [] type = "ThunderDrake" /\ action = "TailSweep"      -> [pool |-> "tp", cost |-> 15]
      [] type = "ThunderDrake" /\ action = "ThunderStrike"  -> [pool |-> "tp", cost |-> 35]
      [] type = "ThunderDrake" /\ action = "StormCharge"    -> [pool |-> "mp", cost |-> 25]
      [] OTHER -> [pool |-> "tp", cost |-> 0]

\* base damage and element of the damaging enemy actions
EnemyBase(action) ==
    CASE action = "Slam"           -> [base |-> 21, element |-> "Neutral"]
      [] action = "HeavySlam"      -> [base |-> 45, element |-> "Neutral"]
      [] action = "FireSpell"      -> [base |-> 28, element |-> "Fire"]
      [] action = "FrostTouch"     -> [base |-> 18, element |-> "Neutral"]
      [] action = "IceSpell"       -> [base |-> 28, element |-> "Ice"]
      [] action = "ClawSwipe"      -> [base |-> 23, element |-> "Neutral"]
      [] action = "LightningSpell" -> [base |-> 28, element |-> "Lightning"]
      [] action = "TailSweep"      -> [base |-> 25, element |-> "Neutral"]
      [] action = "ThunderStrike"  -> [base |-> 50, element |-> "Neutral"]
      [] OTHER -> [base |-> 0, element |-> "Neutral"]

\* the element an enemy action grants for three turns, None if it grants none
GrantedElement(action) ==
    CASE action \in {"HeavySlam", "FireSpell"} -> "Fire"
      [] action = "IceSpell" -> "Ice"
      [] action \in {"LightningSpell", "ThunderStrike"} -> "Lightning"
      [] OTHER -> None

\* a grant that sets the element and leaves the counter alone
WithElement_NoCounter(cd, g) ==
    IF g # None
    THEN [cd EXCEPT !.st.enemy_element = g]
    ELSE cd

\* self.state.enemy.element = ...; enemy_element_duration = 3, after the damage
WithElement(cd, g) ==
    IF g # None
    THEN [cd EXCEPT !.st.enemy_element = g, !.st.enemy_element_duration = ElementTurns]
    ELSE cd

\* a damaging enemy action; Ice and Lightning spells may add their ailment
EnemyStrike(action, cd, rnd) ==
    CASE action = "IceSpell" /\ rnd.proc_enemy ->
           [st |-> [cd.st EXCEPT !.player_status = AddStatus(@, Effect("Freeze", 1, 0))],
            res |-> [EnemyResult(action) EXCEPT !.damage = cd.damage, !.spent = TRUE,
                                                !.status_applied = "Freeze"]]
      [] action = "LightningSpell" /\ rnd.proc_enemy ->
           [st |-> [cd.st EXCEPT !.player_status = AddStatus(@, Effect("Paralyze", 2, 0))],
            res |-> [EnemyResult(action) EXCEPT !.damage = cd.damage, !.spent = TRUE,
                                                !.status_applied = "Paralyze"]]
      [] OTHER ->
           [st |-> cd.st,
            res |-> [EnemyResult(action) EXCEPT !.damage = cd.damage, !.spent = TRUE]]

\* the effect of an enemy action that has been paid for
EnemyEffect(st, action, rnd) ==
    LET b == EnemyBase(action)
    IN  CASE b.base > 0 ->
               EnemyStrike(action,
                           WithElement(CalculateDamage(st, b.base, b.element, "enemy", FALSE),
                                       GrantedElement(action)),
                           rnd)
          [] action = "RageBuff" ->
               [st |-> [st EXCEPT !.enemy_status = AddStatus(@, Effect("RageBuff", 3, 0))],
                res |-> [EnemyResult(action) EXCEPT !.spent = TRUE, !.status_applied = "Rage Buff"]]
          [] action = "StormCharge" ->
               [st |-> [st EXCEPT !.enemy_status = AddStatus(@, Effect("StormCharge", 1, 0))],
                res |-> [EnemyResult(action) EXCEPT !.spent = TRUE, !.status_applied = "Storm Charge"]]
          [] action = "Heal" ->
               LET hp == HealHP(st.enemy_hp, EnemyMaxHP, EnemyHealAmount)
               IN  [st |-> [st EXCEPT !.enemy_hp = hp],
                    res |-> [EnemyResult(action) EXCEPT !.spent = TRUE, !.heal = hp - st.enemy_hp]]
          [] action = "Debuff" ->
               [st |-> [st EXCEPT !.player_status = AddStatus(@, Effect("AttackDown", 3, 0))],
                res |-> [EnemyResult(action) EXCEPT !.spent = TRUE, !.status_applied = "Attack Down"]]
          [] OTHER -> [st |-> st, res |-> EnemyResult(action)]

\* _execute_fire_golem_action, _execute_ice_wraith_action and
\* _execute_thunder_drake_action: pay, then act; nothing when the pool is short
ExecuteEnemyAction(st, action, rnd) ==
    LET c == EnemyCost(st.enemy_type, action)
        sp == IF c.pool = "tp" THEN SpendTP(st.enemy_res, c.cost) ELSE SpendMP(st.enemy_res, c.cost)
    IN  IF c.cost = 0 \/ ~sp.ok THEN [st |-> st, res |-> EnemyResult(action)]
        ELSE EnemyEffect([st EXCEPT !.enemy_res = sp.res], action, rnd)

----------------------------------------------------------------------------
(* Enemy turn *)

\* the history keeps the five most recent enemy actions
Record(history, action) ==
    LET h == Append(history, action)
    IN  IF Len(h) > HistoryLen THEN Tail(h) ELSE h

\* a hit whose defending reduction comes after the defense is subtracted
HitPlayer_DefenseFirst(e) ==
    IF e.res.damage > 0
    THEN LET td == TakeDamage(e.st.player_hp, PlayerDefense, e.res.damage)
             d == IF HasStatus(e.st.player_status, "Defending")
                  THEN IntMul(td.actual, 1, 2) ELSE td.actual
         IN  [st |-> [e.st EXCEPT !.player_hp = Max(0, @ - d)], res |-> [e.res EXCEPT !.damage = d]]
    ELSE e

\* the player takes an enemy hit: halved while defending, then take_damage;
\* e is the state and result the enemy's action left
HitPlayer(e) ==
    IF e.res.damage > 0
    THEN LET d == IF HasStatus(e.st.player_status, "Defending")
                  THEN IntMul(e.res.damage, 1, 2) ELSE e.res.damage
             td == TakeDamage(e.st.player_hp, PlayerDefense, d)
         IN  [st |-> [e.st EXCEPT !.player_hp = td.hp], res |-> [e.res EXCEPT !.damage = td.actual]]
    ELSE e

\* the Frost Aura roll that follows every action of an Ice Wraith
FrostAuraProc(h, rnd) ==
    IF h.st.enemy_type = "IceWraith" /\ HasStatus(h.st.enemy_status, "FrostAura") /\ rnd.proc_aura
    THEN [st |-> [h.st EXCEPT !.player_status = AddStatus(@, Effect("Freeze", 1, 0))],
          res |-> [h.res EXCEPT !.status_applied = "Freeze (Frost Aura)"]]
    ELSE h

\* the action execute_enemy_turn runs: the stored telegraph, or a fresh
\* selection when nothing is stored
ChooseAtExecution(st, sel) ==
    IF st.telegraphed_action # None
    THEN [action |-> st.telegraphed_action, st |-> st, fresh |-> FALSE]
    ELSE LET c == SelectEnemyAction(st, sel)
         IN  [action |-> c.action, st |-> c.st, fresh |-> TRUE]

\* the end of execute_enemy_turn: history, telegraph cleared.  c is the
\* choice, e what the action left, f what the hit and the aura roll left
EnemyTurnDone(c, e, f) ==
    [st |-> [f.st EXCEPT !.last_enemy_action = c.action,
                         !.action_history = Record(@, c.action),
                         !.telegraphed_action = None],
     res |-> f.res, acted |-> TRUE, fresh |-> c.fresh, pre |-> c.st, post |-> e.st]

\* execute_enemy_turn once the action has run
EnemyActed(c, e, rnd) == EnemyTurnDone(c, e, FrostAuraProc(HitPlayer(e), rnd))

\* execute_enemy_turn once the action is chosen
EnemyActs(c, rnd) == EnemyActed(c, ExecuteEnemyAction(c.st, c.action, rnd), rnd)

\* execute_enemy_turn.  acted: an action was executed; fresh: it was selected
\* at execution time; pre/post: the state around the _execute_*_action call
ExecuteEnemyTurn(st, rnd) ==
    IF ~IsAlive(st.enemy_hp)
    THEN [st |-> st, res |-> EnemyResult(""), acted |-> FALSE, fresh |-> FALSE,
          pre |-> st, post |-> st]
    ELSE IF HasStatus(st.enemy_status, "Freeze")
    THEN [st |-> [st EXCEPT !.enemy_status = RemoveStatus(@, "Freeze"),
                            !.telegraphed_action = None],
          res |-> EnemyResult(""), acted |-> FALSE, fresh |-> FALSE, pre |-> st, post |-> st]
    ELSE EnemyActs(ChooseAtExecution(st, rnd.sel_exec), rnd)

----------------------------------------------------------------------------
(* Turn processor *)

NoPlayerResult == PlayerResult(None)
NoEnemyResult == EnemyResult("")

\* steps 2..5 of process_turn: cooldown, regeneration, status ticks, element
\* duration, damage over time
StartOfTurn(st) ==
    LET dur == IF st.enemy_element_duration > 0 THEN st.enemy_element_duration - 1 ELSE 0
    IN  [st EXCEPT
            !.heal_cooldown = IF @ > 0 THEN @ - 1 ELSE @,
            !.player_res = Regenerate(@),
            !.enemy_res = Regenerate(@),
            !.player_status = Ticked(@),
            !.enemy_status = Ticked(@),
            !.enemy_element_duration = dur,
            !.enemy_element = IF st.enemy_element_duration > 0 /\ dur = 0 THEN "Neutral" ELSE @,
            !.player_hp = ApplyDots(@, PlayerDefense, DotEvents(st.player_status)),
            !.enemy_hp = ApplyDots(@, EnemyDefense, DotEvents(st.enemy_status))]

\* what a turn reports besides the new state
TurnLog(res, s0, s1, p, e, chosen, prev) ==
    [result |-> res, start |-> s0, pre_player |-> s1, player |-> p.res, post_player |-> p.st,
     enemy |-> e.res, acted |-> e.acted, fresh |-> e.fresh,
     pre_enemy |-> e.pre, post_enemy |-> e.post, chosen |-> chosen, prev_chosen |-> prev]

NoEnemyTurn(st) ==
    [st |-> st, res |-> NoEnemyResult, acted |-> FALSE, fresh |-> FALSE, pre |-> st, post |-> st]

\* if self.state.turn_count > self.TURN_LIMIT, after the increment
TurnLimitExceeded_Early(turn_count) == turn_count >= TURN_LIMIT

TurnLimitExceeded(turn_count) == turn_count > TURN_LIMIT

\* process_turn after the enemy's turn: player_death, or the stance expires,
\* the next action is selected and the turn continues
AfterEnemyTurn(st, s1, p, e, rnd, prev) ==
    IF ~IsAlive(e.st.player_hp)
    THEN [st |-> e.st, result |-> "player_death",
          log |-> TurnLog("player_death", st, s1, p, e, None, prev)]
    ELSE LET t == TelegraphEnemyAction(
                      [e.st EXCEPT !.player_status = RemoveStatus(@, "Defending")],
                      rnd.sel_tele)
         IN  [st |-> t.st, result |-> "continue",
              log |-> TurnLog("continue", st, s1, p, e, t.action, prev)]

\* process_turn without the check for a defeated enemy
AfterPlayerAction_NoWinCheck(st, s1, p, rnd, prev) ==
    AfterEnemyTurn(st, s1, p, ExecuteEnemyTurn(p.st, rnd), rnd, prev)

\* process_turn after the player's action: player_win, or the enemy's turn
AfterPlayerAction(st, s1, p, rnd, prev) ==
    IF ~IsAlive(p.st.enemy_hp)
    THEN [st |-> p.st, result |-> "player_win",
          log |-> TurnLog("player_win", st, s1, p, NoEnemyTurn(p.st), None, prev)]
    ELSE AfterEnemyTurn(st, s1, p, ExecuteEnemyTurn(p.st, rnd), rnd, prev)

\* process_turn after the start-of-turn steps left state s1
AfterStartOfTurn(st, s1, player_action, rnd, prev) ==
    AfterPlayerAction(st, s1, ExecutePlayerAction(s1, player_action, rnd), rnd, prev)

\* process_turn after the increment left state s0
AfterIncrement(st, s0, player_action, rnd, prev) ==
    IF TurnLimitExceeded(s0.turn_count)
    THEN [st |-> s0, result |-> "turn_limit",
          log |-> TurnLog("turn_limit", st, s0, [st |-> s0, res |-> NoPlayerResult],
                          NoEnemyTurn(s0), None, prev)]
    ELSE AfterStartOfTurn(st, StartOfTurn(s0), player_action, rnd, prev)

\* process_turn: the new state, the CombatResult and the turn's report.
\* prev is the action the selector returned at the tail of the previous turn.
ProcessTurn(st, player_action, rnd, prev) ==
    AfterIncrement(st, [st EXCEPT !.turn_count = @ + 1], player_action, rnd, prev)

----------------------------------------------------------------------------
(* Text *)

SP == " "
IndentUnit == 4

RECURSIVE LStrip(_)
LStrip(s) == IF s # << >> /\ Head(s) = SP THEN LStrip(Tail(s)) ELSE s

RECURSIVE RStrip(_)
RStrip(s) == IF s # << >> /\ s[Len(s)] = SP THEN RStrip(SubSeq(s, 1, Len(s) - 1)) ELSE s

\* str.strip() on one line
Strip(s) == RStrip(LStrip(s))

\* first position of token c in s, 0 if it is absent (str.index)
RECURSIVE IndexFrom(_, _, _)
IndexFrom(s, c, i) ==
    IF i > Len(s) THEN 0 ELSE IF s[i] = c THEN i ELSE IndexFrom(s, c, i + 1)

Index(s, c) == IndexFrom(s, c, 1)

\* last position of token c in s, 0 if it is absent (str.rindex)
RECURSIVE RIndexFrom(_, _, _)
RIndexFrom(s, c, i) ==
    IF i < 1 THEN 0 ELSE IF s[i] = c THEN i ELSE RIndexFrom(s, c, i - 1)

RIndex(s, c) == RIndexFrom(s, c, Len(s))

\* first position where the delimiter " : " starts, 0 if it does not occur
RECURSIVE DelimFrom(_, _)
DelimFrom(s, i) ==
    IF i + 2 > Len(s) THEN 0
    ELSE IF s[i] = SP /\ s[i + 1] = ":" /\ s[i + 2] = SP THEN i
    ELSE DelimFrom(s, i + 1)

\* line.split(' : ', 1): the part before the delimiter and the part after it
SplitOnce(s) ==
    LET i == DelimFrom(s, 1)
    IN  IF i = 0 THEN <<s>> ELSE <<SubSeq(s, 1, i - 1), SubSeq(s, i + 3, Len(s))>>

\* str.lower() on the node kinds the texts use
LowerTok(t) ==
    CASE t = "Root" -> "root"
      [] t = "Selector" -> "selector"
      [] t = "Sequence" -> "sequence"
      [] t = "Condition" -> "condition"
      [] t = "Task" -> "task"
      [] OTHER -> t

Lower(s) == [i \in DOMAIN s |-> LowerTok(s[i])]

----------------------------------------------------------------------------
(* BTNode and the DSL parser *)

\* BTNode.__init__: both strings stripped, an empty param is None (<< >>)
BTNode(node_type, param) ==
    [node_type |-> Strip(node_type), param |-> Strip(param), children |-> << >>]

NoTree == << >>

\* a text is the sequence of its lines; text.strip().split('\n')
IsBlank(line) == Strip(line) = << >>

RECURSIVE DropBlankHead(_)
DropBlankHead(text) ==
    IF text # << >> /\ IsBlank(Head(text)) THEN DropBlankHead(Tail(text)) ELSE text

RECURSIVE DropBlankTail(_)
DropBlankTail(text) ==
    IF text # << >> /\ IsBlank(text[Len(text)])
    THEN DropBlankTail(SubSeq(text, 1, Len(text) - 1)) ELSE text

StripText(text) ==
    LET t == DropBlankTail(DropBlankHead(text))
    IN  IF t = << >> THEN << << >> >>
        ELSE IF Len(t) = 1 THEN << Strip(t[1]) >>
        ELSE << LStrip(t[1]) >> \o SubSeq(t, 2, Len(t) - 1) \o << RStrip(t[Len(t)]) >>

\* parse_line: ok is FALSE where the code raises ValueError
ParseLine(line) ==
    LET indent_len == Len(line) - Len(LStrip(line))
        parts == SplitOnce(Strip(line))
    IN  [ok |-> indent_len % IndentUnit = 0,
         level |-> indent_len \div IndentUnit,
         node |-> BTNode(parts[1], IF Len(parts) > 1 THEN parts[2] ELSE << >>)]

\* while level <= stack[-1][0]: stack.pop(); an empty stack raises IndexError
RECURSIVE PopTo(_, _)
PopTo(stack, level) ==
    IF stack = << >> THEN << >>
    ELSE IF level <= stack[Len(stack)].level THEN PopTo(SubSeq(stack, 1, Len(stack) - 1), level)
    ELSE stack

\* the loop over lines[1:]; nodes is the arena, stack holds (level, index)
RECURSIVE ParseRest(_, _, _)
ParseRest(lines, nodes, stack) ==
    IF lines = << >> THEN [ok |-> TRUE, nodes |-> nodes]
    ELSE IF IsBlank(Head(lines)) THEN ParseRest(Tail(lines), nodes, stack)
    ELSE LET pl == ParseLine(Head(lines))
             st2 == PopTo(stack, pl.level)
             parent == st2[Len(st2)].idx
             me == Len(nodes) + 1
             nodes2 == Append([nodes EXCEPT ![parent].children = Append(@, me)], pl.node)
         IN  IF ~pl.ok \/ st2 = << >> THEN [ok |-> FALSE, nodes |-> NoTree]
             ELSE ParseRest(Tail(lines), nodes2, Append(st2, [level |-> pl.level, idx |-> me]))

\* parse_bt_dsl: ok is FALSE where it returns None; the root is node 1
parse_bt_dsl(text) ==
    LET lines == StripText(text)
        root == ParseLine(lines[1])
    IN  IF ~root.ok \/ root.level # 0 THEN [ok |-> FALSE, nodes |-> NoTree]
        ELSE ParseRest(Tail(lines), <<root.node>>, <<[level |-> 0, idx |-> 1]>>)

\* len() of a line and of a text, in characters; lines are joined by "\n"
RECURSIVE LineChars(_)
LineChars(line) == IF line = << >> THEN 0 ELSE Len(Head(line)) + LineChars(Tail(line))

RECURSIVE TextChars(_)
TextChars(lines) ==
    IF lines = << >> THEN 0
    ELSE LineChars(Head(lines)) + (IF Tail(lines) = << >> THEN 0 ELSE 1) + TextChars(Tail(lines))

\* str.startswith on token sequences
StartsWith(line, prefix) ==
    Len(line) >= Len(prefix) /\ SubSeq(line, 1, Len(prefix)) = prefix

\* [l for l in lines if l.strip()]
RECURSIVE NonBlank(_)
NonBlank(lines) ==
    IF lines = << >> THEN << >>
    ELSE (IF IsBlank(Head(lines)) THEN << >> ELSE <<Head(lines)>>) \o NonBlank(Tail(lines))

\* the shortest text _validate_bt looks at
MinTextChars == 10

\* SingleStageLLMAgent._validate_bt: long enough, starts with "root :", and
\* the last non-blank line starts with "task :"
ValidateBT(text) ==
    LET stripped == StripText(text)
        lines == NonBlank(stripped)
    IN  /\ TextChars(stripped) >= MinTextChars
        /\ StartsWith(stripped[1], <<"root", SP, ":">>)
        /\ lines # << >>
        /\ StartsWith(Strip(lines[Len(lines)]), <<"task", SP, ":">>)

\* the names LLMAgent._validate_bt refuses wherever they occur in the text
InvalidPatterns ==
    {"isPlayerHP", "isEnemyHP", "isAbilityAvailable", "IsAbilityReady", "UseAbility",
     "executeCombo", "isComboAvailable"}

\* pattern in word, for the words the texts use
WordHasPattern(word) ==
    \/ word \in InvalidPatterns
    \/ word \in {"isPlayerHPLow", "isEnemyHPLow"}

\* LLMAgent._validate_bt: the same checks, then the refused names
ValidateBTStrict(text) ==
    /\ ValidateBT(text)
    /\ \A i \in DOMAIN text : \A j \in DOMAIN text[i] : ~WordHasPattern(text[i][j])

\* one line of __repr__ without the parameter
ReprLine_NoParam(node, level) == [i \in 1..(level * IndentUnit) |-> SP] \o node.node_type

\* BTNode.__repr__, the node's own line: indent, node_type, " : param" if any
ReprLine(node, level) ==
    [i \in 1..(level * IndentUnit) |-> SP] \o node.node_type
        \o (IF node.param # << >> THEN <<SP, ":", SP>> \o node.param ELSE << >>)

\* BTNode.__repr__: the lines of node i at the given level and of its
\* children, in order, one level deeper
RECURSIVE ReprNode(_, _, _)
RECURSIVE ReprChildren(_, _, _)
ReprNode(t, i, level) == <<ReprLine(t[i], level)>> \o ReprChildren(t, t[i].children, level + 1)

ReprChildren(t, kids, level) ==
    IF kids = << >> THEN << >>
    ELSE ReprNode(t, Head(kids), level) \o ReprChildren(t, Tail(kids), level)

\* repr(root)
Repr(t) == ReprNode(t, 1, 0)

----------------------------------------------------------------------------
(* Condition and action registry (bt_nodes.py) *)

\* int(param): the numerals the trees use
NumTable ==
    ("0" :> 0) @@ ("1" :> 1) @@ ("2" :> 2) @@ ("3" :> 3) @@ ("10" :> 10) @@ ("20" :> 20)
    @@ ("30" :> 30) @@ ("40" :> 40) @@ ("50" :> 50) @@ ("60" :> 60) @@ ("70" :> 70)

\* a in b on the names the engine stores (str.__contains__)
ProperSubstrings ==
    {<<"Slam", "HeavySlam">>, <<"Heavy", "HeavySlam">>, <<"Strike", "ThunderStrike">>,
     <<"Spell", "FireSpell">>, <<"Spell", "IceSpell">>, <<"Spell", "LightningSpell">>}

\* a in b that misses the whole string
Contains_ProperOnly(b, a) == a = "" \/ <<a, b>> \in ProperSubstrings

Contains(b, a) == a = "" \/ a = b \/ <<a, b>> \in ProperSubstrings

NumericConditions ==
    {"HasTP", "HasMP", "IsTPLow", "IsMPLow", "IsPlayerHPLow", "IsPlayerHPHigh",
     "IsEnemyHPLow", "IsEnemyHPHigh", "IsTurnEarly"}

NamedConditions ==
    {"IsPlayerHPLevel", "IsEnemyHPLevel", "IsEnemy", "EnemyWeakTo", "EnemyResistantTo",
     "HasAilment", "EnemyHasBuff", "EnemyInPhase", "EnemyIsTelegraphing", "EnemyLastAction",
     "EnemyUsedRecently"}

PlainConditions == {"HasScannedEnemy", "IsFrozen", "IsParalyzed", "CanHeal"}

\* the default a factory branch uses when the argument is empty
DefaultNumber(name) ==
    CASE name \in {"HasTP", "IsTPLow", "IsMPLow", "IsPlayerHPLow", "IsEnemyHPLow"} -> 30
      [] name = "HasMP" -> 20
      [] name \in {"IsPlayerHPHigh", "IsEnemyHPHigh"} -> 70
      [] OTHER -> 3

DefaultName(name) ==
    CASE name \in {"IsPlayerHPLevel", "IsEnemyHPLevel"} -> "Low"
      [] name = "IsEnemy" -> "FireGolem"
      [] name \in {"EnemyWeakTo", "EnemyResistantTo"} -> "Fire"
      [] name = "HasAilment" -> "Burn"
      [] name \in {"EnemyHasBuff", "EnemyUsedRecently"} -> "RageBuff"
      [] name = "EnemyInPhase" -> "Healthy"
      [] name = "EnemyIsTelegraphing" -> "HeavySlam"
      [] OTHER -> "Slam"

\* evaluate() of a condition built with a numeric threshold
EvalNumeric(name, n, st) ==
    CASE name = "HasTP" -> st.player_res.tp >= n
      [] name = "HasMP" -> st.player_res.mp >= n
      [] name = "IsTPLow" -> st.player_res.tp < n
      [] name = "IsMPLow" -> st.player_res.mp < n
      [] name = "IsPlayerHPLow" -> HpPctBelow(st.player_hp, PlayerMaxHP, n)
      [] name = "IsPlayerHPHigh" -> HpPctAbove(st.player_hp, PlayerMaxHP, n)
      [] name = "IsEnemyHPLow" -> HpPctBelow(st.enemy_hp, EnemyMaxHP, n)
      [] name = "IsEnemyHPHigh" -> HpPctAbove(st.enemy_hp, EnemyMaxHP, n)
      [] name = "IsTurnEarly" -> st.turn_count <= n

\* hp_percentage() against the 33.33 / 66.67 levels
HpLevel(hp, max_hp, level) ==
    CASE level = "Low" -> hp * 10000 < 3333 * max_hp
      [] level = "Mid" -> hp * 10000 >= 3333 * max_hp /\ hp * 10000 < 6667 * max_hp
      [] level = "High" -> hp * 10000 >= 6667 * max_hp
      [] OTHER -> FALSE

\* evaluate() of a condition built with a name argument (already stripped)
EvalNamed(name, a, st) ==
    CASE name = "IsPlayerHPLevel" -> HpLevel(st.player_hp, PlayerMaxHP, a)
      [] name = "IsEnemyHPLevel" -> HpLevel(st.enemy_hp, EnemyMaxHP, a)
      [] name = "IsEnemy" -> a \in EnemyTypes /\ st.enemy_type = a
      [] name = "EnemyWeakTo" ->
           a \in {"Fire", "Ice", "Lightning"} /\ ELEMENTAL_WEAKNESS(st.enemy_element) = a
      [] name = "EnemyResistantTo" ->
           a \in {"Fire", "Ice", "Lightning"} /\ st.enemy_element = a
      [] name = "HasAilment" ->
           a \in {"Burn", "Freeze", "Paralyze", "AttackDown", "Defending"}
           /\ HasStatus(st.player_status, a)
      [] name = "EnemyHasBuff" ->
           a \in {"RageBuff", "Enrage", "StormCharge", "FrostAura"}
           /\ HasStatus(st.enemy_status, a)
      [] name = "EnemyInPhase" ->
           CASE a = "Healthy" -> HpPctAbove(st.enemy_hp, EnemyMaxHP, 60)
             [] a = "Wounded" -> HpPctAbove(st.enemy_hp, EnemyMaxHP, 30)
                                 /\ ~HpPctAbove(st.enemy_hp, EnemyMaxHP, 60)
             [] a = "Critical" -> ~HpPctAbove(st.enemy_hp, EnemyMaxHP, 30)
             [] OTHER -> FALSE
      [] name = "EnemyIsTelegraphing" ->
           st.telegraphed_action # None /\ Contains(st.telegraphed_action, a)
      [] name = "EnemyLastAction" ->
           st.last_enemy_action # None /\ Contains(st.last_enemy_action, a)
      [] name = "EnemyUsedRecently" ->
           \E i \in DOMAIN st.action_history : st.action_history[i] = a

\* the plain conditions with a CanHeal that looks at the MP only
EvalPlain_MPOnly(name, st) ==
    CASE name = "HasScannedEnemy" -> st.scanned
      [] name = "IsFrozen" -> HasStatus(st.player_status, "Freeze")
      [] name = "IsParalyzed" -> HasStatus(st.player_status, "Paralyze")
      [] name = "CanHeal" -> st.player_res.mp >= HealCost

EvalPlain(name, st) ==
    CASE name = "HasScannedEnemy" -> st.scanned
      [] name = "IsFrozen" -> HasStatus(st.player_status, "Freeze")
      [] name = "IsParalyzed" -> HasStatus(st.player_status, "Paralyze")
      [] name = "CanHeal" -> st.heal_cooldown = 0 /\ st.player_res.mp >= HealCost

\* create_condition_node(...).evaluate(state); an exception counts as False
CreateAndEvaluate(name, arg, st) ==
    LET a == Strip(arg)
    IN  IF Len(name) # 1 THEN FALSE
        ELSE IF name[1] \in PlainConditions THEN EvalPlain(name[1], st)
        ELSE IF name[1] \in NumericConditions
        THEN IF arg = << >> THEN EvalNumeric(name[1], DefaultNumber(name[1]), st)
             ELSE Len(a) = 1 /\ a[1] \in DOMAIN NumTable /\ EvalNumeric(name[1], NumTable[a[1]], st)
        ELSE IF name[1] \in NamedConditions
        THEN IF arg = << >> THEN EvalNamed(name[1], DefaultName(name[1]), st)
             ELSE IF a = << >> THEN EvalNamed(name[1], "", st)
             ELSE Len(a) = 1 /\ EvalNamed(name[1], a[1], st)
        ELSE FALSE

\* BTExecutor._evaluate_condition
EvaluateCondition(node, st) ==
    LET p == node.param
        open == Index(p, "(")
        close == RIndex(p, ")")
    IN  IF p = << >> THEN FALSE
        ELSE IF open = 0 THEN CreateAndEvaluate(p, << >>, st)
        ELSE close # 0 /\ CreateAndEvaluate(SubSeq(p, 1, open - 1), SubSeq(p, open + 1, close - 1), st)

\* create_action_node(...).execute(state); None for an unknown name
CreateAction(name) ==
    IF Len(name) # 1 THEN None
    ELSE IF name[1] \in PlayerActions THEN name[1]
    ELSE IF name[1] = "LightAttack" THEN "Attack"
    ELSE IF name[1] = "HeavyAttack" THEN "PowerStrike"
    ELSE None

\* BTExecutor._execute_action
ExecuteAction(node, st) ==
    LET p == Strip(node.param)
        open == Index(p, "(")
    IN  IF node.param = << >> THEN None
        ELSE CreateAction(IF open = 0 THEN p ELSE SubSeq(p, 1, open - 1))

----------------------------------------------------------------------------
(* Tree interpreter (bt_executor.py) *)

\* one entry of BTExecutor.execution_trace, with the node it is about
Ev(ev, i) == [ev |-> ev, node |-> i]

Kind(t, i) == Lower(t[i].node_type)

RECURSIVE ExecuteNode(_, _, _)
RECURSIVE SelectorLoop(_, _, _, _)
RECURSIVE SequenceLoop(_, _, _, _, _)

\* a selector in which the last child that yields an action wins
SelectorLoop_LastWins(t, i, k, st) ==
    IF k > Len(t[i].children) THEN [action |-> None, trace |-> <<Ev("selector_failed", i)>>]
    ELSE LET r == ExecuteNode(t, t[i].children[k], st)
             rest == SelectorLoop(t, i, k + 1, st)
         IN  IF rest.action # None \/ r.action = None
             THEN [action |-> rest.action, trace |-> r.trace \o rest.trace]
             ELSE [action |-> r.action, trace |-> r.trace \o <<Ev("selector_succeeded", i)>>]

\* for child in node.children: the first child that yields an action wins
SelectorLoop(t, i, k, st) ==
    IF k > Len(t[i].children) THEN [action |-> None, trace |-> <<Ev("selector_failed", i)>>]
    ELSE LET r == ExecuteNode(t, t[i].children[k], st)
         IN  IF r.action # None
             THEN [action |-> r.action, trace |-> r.trace \o <<Ev("selector_succeeded", i)>>]
             ELSE LET rest == SelectorLoop(t, i, k + 1, st)
                  IN  [action |-> rest.action, trace |-> r.trace \o rest.trace]

\* a sequence that evaluates every child, whatever its conditions say
SequenceLoop_KeepsGoing(t, i, k, st, last) ==
    IF k > Len(t[i].children) THEN [action |-> last, trace |-> << >>]
    ELSE LET r == ExecuteNode(t, t[i].children[k], st)
             rest == SequenceLoop(t, i, k + 1, st, IF r.action # None THEN r.action ELSE last)
         IN  [action |-> rest.action, trace |-> r.trace \o rest.trace]

\* for i, child in enumerate(node.children), carrying last_result
SequenceLoop(t, i, k, st, last) ==
    IF k > Len(t[i].children) THEN [action |-> last, trace |-> << >>]
    ELSE LET c == t[i].children[k]
         IN  IF Kind(t, c) = <<"condition">>
             THEN IF ~EvaluateCondition(t[c], st)
                  THEN [action |-> None, trace |-> <<Ev("condition_failed", c)>>]
                  ELSE LET rest == SequenceLoop(t, i, k + 1, st, last)
                       IN  [action |-> rest.action,
                            trace |-> <<Ev("condition_passed", c)>> \o rest.trace]
             ELSE LET r == ExecuteNode(t, c, st)
                  IN  IF r.action = None /\ k < Len(t[i].children)
                      THEN [action |-> None, trace |-> r.trace \o <<Ev("child_failed", c)>>]
                      ELSE LET rest == SequenceLoop(t, i, k + 1, st,
                                                    IF r.action # None THEN r.action ELSE last)
                           IN  [action |-> rest.action, trace |-> r.trace \o rest.trace]

\* BTExecutor._execute_node: the action (None for none) and the trace
ExecuteNode(t, i, st) ==
    LET kind == Kind(t, i)
    IN  CASE kind = <<"root">> ->
               IF t[i].children # << >> THEN ExecuteNode(t, t[i].children[1], st)
               ELSE [action |-> None, trace |-> << >>]
          [] kind = <<"selector">> ->
               LET r == SelectorLoop(t, i, 1, st)
               IN  [action |-> r.action, trace |-> <<Ev("selector", i)>> \o r.trace]
          [] kind = <<"sequence">> ->
               LET r == SequenceLoop(t, i, 1, st, None)
               IN  [action |-> r.action, trace |-> <<Ev("sequence", i)>> \o r.trace]
          [] kind = <<"condition">> ->
               [action |-> None,
                trace |-> <<Ev(IF EvaluateCondition(t[i], st) THEN "condition_true"
                               ELSE "condition_false", i)>>]
          [] kind = <<"task">> \/ kind = <<"action">> ->
               [action |-> ExecuteAction(t[i], st), trace |-> <<Ev("action", i)>>]
          [] OTHER -> [action |-> None, trace |-> <<Ev("unknown", i)>>]

\* BTExecutor.execute
Execute(t, st) == ExecuteNode(t, 1, st)

----------------------------------------------------------------------------
(* DSL texts *)

Indent(depth) == [i \in 1..(depth * IndentUnit) |-> SP]

\* "<indent><kind> :" and "<indent><kind>"
Composite(depth, kind) == Indent(depth) \o <<kind, SP, ":">>
Bare(depth, kind) == Indent(depth) \o <<kind>>

\* "<indent>condition : Name(arg)" and "<indent>task : Name()"
CondLine(depth, name, arg) ==
    Indent(depth) \o <<"condition", SP, ":", SP, name, "(">> \o arg \o <<")">>
TaskLine(depth, name) == Indent(depth) \o <<"task", SP, ":", SP, name, "(", ")">>

\* the three-line text of the basic-attack scenario
AttackText == <<Composite(0, "root"), Composite(1, "selector"), TaskLine(2, "Attack")>>

\* heal when hurt, defend otherwise
SurviveText ==
    <<Bare(0, "root"), Bare(1, "selector"),
      Bare(2, "sequence"), CondLine(3, "IsPlayerHPLow", <<"50">>), CondLine(3, "CanHeal", << >>),
      TaskLine(3, "Heal"),
      TaskLine(2, "Defend")>>

\* react to the telegraph, scan first, exploit the weakness, strike
StrikeText ==
    <<Bare(0, "root"), Bare(1, "selector"),
      Bare(2, "sequence"), CondLine(3, "EnemyIsTelegraphing", <<"HeavySlam">>), TaskLine(3, "Defend"),
      Bare(2, "sequence"), CondLine(3, "IsTurnEarly", <<"1">>), TaskLine(3, "Scan"),
      Bare(2, "sequence"), CondLine(3, "EnemyWeakTo", <<"Ice">>), TaskLine(3, "IceSpell"),
      Bare(2, "sequence"), CondLine(3, "HasTP", <<"30">>), TaskLine(3, "PowerStrike"),
      TaskLine(2, "Attack")>>

\* spells and heals with no resource gate
CasterText ==
    <<Bare(0, "root"), Bare(1, "selector"),
      Bare(2, "sequence"), CondLine(3, "IsPlayerHPLow", <<"60">>), TaskLine(3, "Heal"),
      Bare(2, "sequence"), CondLine(3, "IsEnemyHPHigh", <<"70">>), TaskLine(3, "FireSpell"),
      Bare(2, "sequence"), CondLine(3, "EnemyInPhase", <<"Wounded">>), TaskLine(3, "LightningSpell"),
      TaskLine(2, "PowerStrike")>>

PolicyTexts == {AttackText, SurviveText, StrikeText, CasterText}

----------------------------------------------------------------------------
(* Random source *)

Rnd(se, st, pp, ms, pe, pa) ==
    [sel_exec |-> se, sel_tele |-> st, proc_player |-> pp, miss |-> ms,
     proc_enemy |-> pe, proc_aura |-> pa]

AllRnd ==
    {Rnd(se, st, pp, ms, pe, pa) : se \in 0..3, st \in 0..3, pp \in BOOLEAN,
                                   ms \in BOOLEAN, pe \in BOOLEAN, pa \in BOOLEAN}

\* a pinned source: always the same draw, every chance roll the same way
Pinned(sd) == Rnd(sd % 4, sd % 4, sd % 2 = 1, sd % 2 = 1, sd % 2 = 1, sd % 2 = 1)

NoRnd == Rnd(0, 0, FALSE, FALSE, FALSE, FALSE)

Draws(needed) == IF needed THEN 0..3 ELSE {0}
Rolls(needed) == IF needed THEN BOOLEAN ELSE {FALSE}

\* the draws of AllRnd that a turn with this state and player action can
\* tell apart: a roll nothing can read this turn is left at its default
ReadableRnd(st, action) ==
    LET s1 == StartOfTurn(st)
        hp == ExecutePlayerAction(s1, action, NoRnd).st.enemy_hp
        fresh == st.telegraphed_action = None
        aura == st.enemy_type = "IceWraith"
                /\ (HasStatus(st.enemy_status, "FrostAura") \/ ~HpPctAbove(hp, EnemyMaxHP, 30))
    IN  {Rnd(se, tl, pp, ms, pe, pa) :
            se \in Draws(fresh), tl \in 0..3,
            pp \in Rolls(action \in {"FireSpell", "IceSpell", "LightningSpell"}),
            ms \in Rolls(HasStatus(s1.player_status, "Paralyze")),
            pe \in Rolls(fresh /\ st.enemy_type \in {"IceWraith", "ThunderDrake"}),
            pa \in Rolls(aura)}

\* the draws a turn may see
RndSet(st, action, sd) ==
    IF st.turn_count < FreeTurns THEN ReadableRnd(st, action) ELSE {Pinned(sd)}

\* the draws the telegraph before the first turn may see
TelegraphRndSet(st, sd) ==
    IF st.turn_count < FreeTurns THEN {Rnd(0, tl, FALSE, FALSE, FALSE, FALSE) : tl \in 0..3}
    ELSE {Pinned(sd)}

----------------------------------------------------------------------------
(* DungeonGame and the run loop *)

\* GameState() as DungeonGame.__init__ leaves it
NewState(enemy_type) ==
    [turn_count |-> 0, player_hp |-> PlayerMaxHP, player_res |-> PlayerResources,
     player_status |-> NoStatus, enemy_hp |-> EnemyMaxHP, enemy_element |-> "Neutral",
     enemy_type |-> enemy_type, enemy_res |-> EnemyResources(enemy_type),
     enemy_status |-> NoStatus, heal_cooldown |-> 0, scanned |-> FALSE,
     telegraphed_action |-> None, last_enemy_action |-> None, action_history |-> << >>,
     enemy_element_duration |-> 0]

NoLog(st) ==
    [TurnLog("none", st, st, [st |-> st, res |-> NoPlayerResult], NoEnemyTurn(st), None, None)
       EXCEPT !.player = NoPlayerResult]

Init ==
    /\ pc = "game"
    /\ \E t \in EnemyTypes : state = NewState(t)
    /\ game_over = FALSE
    /\ victory = FALSE
    /\ result = "none"
    /\ \E text \in PolicyTexts : tree = parse_bt_dsl(text).nodes
    /\ seed \in 0..(SeedCount - 1)
    /\ log = NoLog(state)
    /\ turn = 0

\* run_game before its loop: game.engine.telegraph_enemy_action()
PreTelegraph ==
    /\ pc = "game"
    /\ result = "none"
    /\ \E rnd \in TelegraphRndSet(state, seed) :
       \E t \in {TelegraphEnemyAction(state, rnd.sel_tele)} :
             /\ state' = t.st
             /\ log' = [NoLog(state) EXCEPT !.result = "pretelegraph", !.chosen = t.action]
    /\ result' = "pretelegraph"
    /\ UNCHANGED <<game_over, victory, tree, seed, pc, turn>>

\* a run loop that falls back to Defend
Decide_FallsBackToDefend(t, st) ==
    LET a == Execute(t, st).action
    IN  IF a = None THEN "Defend" ELSE a

\* the action run_game passes on: the tree's, or Attack when it decides none
Decide(t, st) ==
    LET a == Execute(t, st).action
    IN  IF a = None THEN "Attack" ELSE a

\* a take_action that does not end the game at the turn limit
IsTerminal_ForgetsLimit(res) == res \in {"player_win", "player_death"}

\* the results on which take_action sets game_over
IsTerminal(res) == res \in {"player_win", "player_death", "turn_limit"}

\* DungeonGame.take_action with the action the executor decides, as the run
\* loop calls it
TakeAction ==
    /\ pc = "game"
    /\ ~game_over
    /\ \E action \in {Decide(tree, state)} : \E rnd \in RndSet(state, action, seed) :
       \E r \in {ProcessTurn(state, action, rnd, log.chosen)} :
             /\ state' = r.st
             /\ result' = r.result
             /\ log' = r.log
             /\ game_over' = IsTerminal(r.result)
             /\ victory' = (r.result = "player_win")
    /\ UNCHANGED <<tree, seed, pc, turn>>

\* take_action on a finished game: {"error": "Game is over"}
TakeActionAfterEnd ==
    /\ pc = "game"
    /\ game_over
    /\ result' = "error"
    /\ UNCHANGED <<state, game_over, victory, tree, seed, log, pc, turn>>

Next == PreTelegraph \/ TakeAction \/ TakeActionAfterEnd

Spec == Init /\ [][Next]_vars

----------------------------------------------------------------------------
(* GameRunner.run_game *)

max_turns == 35

\* while not self.game.game_over and turn < max_turns
LoopContinues(over, t) == ~over /\ t < max_turns

\* a GameRunner (or one round of ValidationTester) with its game and executor
InitRun ==
    /\ pc = "run_start"
    /\ \E t \in EnemyTypes : state = NewState(t)
    /\ game_over = FALSE
    /\ victory = FALSE
    /\ result = "none"
    /\ \E text \in PolicyTexts : tree = parse_bt_dsl(text).nodes
    /\ seed \in 0..(SeedCount - 1)
    /\ log = NoLog(state)
    /\ turn = 0

\* turn = 0 and the pre-telegraph of the first enemy action
RunPreTelegraph ==
    /\ pc = "run_start"
    /\ \E rnd \in TelegraphRndSet(state, seed) :
       \E t \in {TelegraphEnemyAction(state, rnd.sel_tele)} :
             /\ state' = t.st
             /\ log' = [NoLog(state) EXCEPT !.result = "pretelegraph", !.chosen = t.action]
    /\ result' = "pretelegraph"
    /\ pc' = "run_loop"
    /\ UNCHANGED <<game_over, victory, tree, seed, turn>>

\* one iteration of the loop: turn += 1, executor.execute, the Attack
\* fallback, game.take_action
RunTurn ==
    /\ pc = "run_loop"
    /\ LoopContinues(game_over, turn)
    /\ turn' = turn + 1
    /\ \E action \in {Decide(tree, state)} : \E rnd \in RndSet(state, action, seed) :
       \E r \in {ProcessTurn(state, action, rnd, log.chosen)} :
             /\ state' = r.st
             /\ result' = r.result
             /\ log' = r.log
             /\ game_over' = IsTerminal(r.result)
             /\ victory' = (r.result = "player_win")
    /\ UNCHANGED <<tree, seed, pc>>

\* the loop condition fails (or the break after take_action): the summary
RunExit ==
    /\ pc = "run_loop"
    /\ ~LoopContinues(game_over, turn)
    /\ pc' = "run_done"
    /\ UNCHANGED <<state, game_over, victory, result, tree, seed, log, turn>>

NextRun == RunPreTelegraph \/ RunTurn \/ RunExit

SpecRun == InitRun /\ [][NextRun]_vars

----------------------------------------------------------------------------
(* Turn counter and turn limit *)

TurnResults == {"continue", "player_win", "player_death", "turn_limit"}

\* C1 as stated: every process_turn call adds exactly 1 to turn_count, and
\* the session is terminal with the turn-limit outcome exactly when the
\* counter reaches TURN_LIMIT (35)
C1_TerminalAtLimit ==
    (pc = "game" /\ log.result \in TurnResults) =>
        /\ state.turn_count = log.start.turn_count + 1
        /\ (log.result = "turn_limit" => state.turn_count = TURN_LIMIT)
        /\ (state.turn_count = TURN_LIMIT => game_over)

\* C1 amended: every process_turn call adds exactly 1 to turn_count; the
\* call that raises the counter to TURN_LIMIT + 1 (the 36th) returns
\* turn_limit, and no call that leaves the counter at 35 or less does
C1_TerminalPastLimit ==
    (pc = "game" /\ log.result \in TurnResults) =>
        /\ state.turn_count = log.start.turn_count + 1
        /\ state.turn_count <= TURN_LIMIT + 1
        /\ (log.result = "turn_limit" <=> state.turn_count = TURN_LIMIT + 1)
        /\ (log.result = "turn_limit" => game_over /\ ~victory)

\* a session that lasted through turn 35 and ended on the 36th call
C1_Witness ==
    /\ pc = "game"
    /\ log.result = "turn_limit"
    /\ log.start.turn_count = TURN_LIMIT
    /\ state.turn_count = TURN_LIMIT + 1

----------------------------------------------------------------------------
(* Telegraph *)

\* a turn in which execute_enemy_turn ran an action, after a selection was made
EnemyActedAfterSelection ==
    /\ pc = "game"
    /\ log.result \in {"continue", "player_death"}
    /\ log.acted
    /\ log.prev_chosen # None

\* C2: in every turn where the enemy acts, the action it executes is the one
\* the selector chose at the tail of the previous turn, and execute_enemy_turn
\* makes no fresh selection of its own
C2_ExecutesPreviousChoice ==
    EnemyActedAfterSelection => (log.enemy.action = log.prev_chosen /\ ~log.fresh)

HeavyActions ==
    {"HeavySlam", "ThunderStrike", "StormCharge", "RageBuff", "Heal", "Debuff", "FrostAura"}

OrdinaryAttacks ==
    {"Slam", "FireSpell", "IceSpell", "FrostTouch", "ClawSwipe", "TailSweep", "LightningSpell"}

\* C3: after a process_turn that returns continue, telegraphed_action is
\* null or a heavy/special action name, and then it is the action the
\* selector chose; an ordinary attack is never stored
C3_TelegraphIsHeavyOrNull ==
    (pc = "game" /\ log.result = "continue") =>
        /\ state.telegraphed_action \in HeavyActions \cup {None}
        /\ state.telegraphed_action \notin OrdinaryAttacks
        /\ (state.telegraphed_action # None => state.telegraphed_action = log.chosen)
        /\ (log.chosen \in OrdinaryAttacks => state.telegraphed_action = None)

\* a continued turn whose tail selected an ordinary attack and stored nothing
C3_Witness ==
    /\ pc = "game"
    /\ log.result = "continue"
    /\ log.chosen \in OrdinaryAttacks
    /\ state.telegraphed_action = None

----------------------------------------------------------------------------
(* Resource costs *)

\* the pool and cost of each player action, 0 for the free ones
PlayerCost(action) ==
    CASE action = "PowerStrike" -> [pool |-> "tp", cost |-> 30]
      [] action \in {"FireSpell", "IceSpell", "LightningSpell"} -> [pool |-> "mp", cost |-> 20]
      [] action = "Heal" -> [pool |-> "mp", cost |-> HealCost]
      [] action = "Scan" -> [pool |-> "mp", cost |-> 15]
      [] OTHER -> [pool |-> "tp", cost |-> 0]

PoolOf(r, pool) == IF pool = "tp" THEN r.tp ELSE r.mp

Paid(r, c) ==
    IF c.pool = "tp" THEN [r EXCEPT !.tp = @ - c.cost] ELSE [r EXCEPT !.mp = @ - c.cost]

PoolsNonNegative(st) ==
    /\ st.player_res.tp >= 0 /\ st.player_res.mp >= 0
    /\ st.enemy_res.tp >= 0 /\ st.enemy_res.mp >= 0

\* the player's costed action of the last turn was attempted (not skipped)
PlayerAttempted ==
    /\ pc = "game"
    /\ log.result \in {"continue", "player_win", "player_death"}
    /\ ~log.player.skipped
    /\ PlayerCost(log.player.action).cost > 0

\* the enemy's costed action of the last turn was attempted
EnemyAttempted ==
    /\ pc = "game"
    /\ log.result \in {"continue", "player_death"}
    /\ log.acted
    /\ EnemyCost(log.pre_enemy.enemy_type, log.enemy.action).cost > 0

\* an enemy action is a no-op below its cost and pays exactly its cost otherwise
EnemyPaysOrSkips ==
    EnemyAttempted =>
        LET c == EnemyCost(log.pre_enemy.enemy_type, log.enemy.action)
        IN  IF PoolOf(log.pre_enemy.enemy_res, c.pool) < c.cost
            THEN log.post_enemy = log.pre_enemy
            ELSE log.post_enemy.enemy_res = Paid(log.pre_enemy.enemy_res, c)

\* C8 as stated: a costed action is a no-op when its pool is below the cost,
\* the pool decreases by exactly the cost otherwise, and no pool is ever negative
C8_PaysWheneverAffordable ==
    /\ PlayerAttempted =>
           LET c == PlayerCost(log.player.action)
           IN  IF PoolOf(log.pre_player.player_res, c.pool) < c.cost
               THEN log.post_player = log.pre_player
               ELSE log.post_player.player_res = Paid(log.pre_player.player_res, c)
    /\ EnemyPaysOrSkips
    /\ pc = "game" => PoolsNonNegative(state)

\* C8 amended: a costed action is a no-op when its pool is below the cost,
\* and so is Heal while heal_cooldown > 0 whatever the MP; in every other
\* case the pool decreases by exactly the cost; no pool is ever negative
C8_PaysUnlessShortOrCoolingDown ==
    /\ PlayerAttempted =>
           LET c == PlayerCost(log.player.action)
               cooling == log.player.action = "Heal" /\ log.pre_player.heal_cooldown > 0
           IN  IF PoolOf(log.pre_player.player_res, c.pool) < c.cost \/ cooling
               THEN log.post_player = log.pre_player /\ ~log.player.success
               ELSE /\ log.post_player.player_res = Paid(log.pre_player.player_res, c)
                    /\ log.player.success
    /\ EnemyPaysOrSkips
    /\ pc = "game" => PoolsNonNegative(state)

\* a spell was attempted with less MP than it costs
C8_Witness ==
    /\ PlayerAttempted
    /\ PoolOf(log.pre_player.player_res, PlayerCost(log.player.action).pool)
           < PlayerCost(log.player.action).cost
    /\ log.post_player = log.pre_player

----------------------------------------------------------------------------
(* The executor on its own: load a text, evaluate the tree against a state *)

\* heal first, then strike
HealFirstText ==
    <<Bare(0, "root"), Bare(1, "selector"),
      Bare(2, "sequence"), CondLine(3, "IsPlayerHPLow", <<"30">>), CondLine(3, "CanHeal", << >>),
      TaskLine(3, "Heal"),
      Bare(2, "sequence"), CondLine(3, "HasTP", <<"30">>), TaskLine(3, "PowerStrike"),
      TaskLine(2, "Attack")>>

\* a sequence of two conditions and a nested selector under the root
GuardText ==
    <<Bare(0, "root"), Bare(1, "sequence"),
      CondLine(2, "EnemyIsTelegraphing", <<"HeavySlam">>), CondLine(2, "IsPlayerHPLow", <<"50">>),
      Bare(2, "selector"),
      Bare(3, "sequence"), CondLine(4, "CanHeal", << >>), TaskLine(4, "Heal"),
      TaskLine(3, "Defend")>>

\* a selector with no unconditional branch
ReactOnlyText ==
    <<Bare(0, "root"), Bare(1, "selector"),
      Bare(2, "sequence"), CondLine(3, "IsPlayerHPLow", <<"30">>), CondLine(3, "CanHeal", << >>),
      TaskLine(3, "Heal"),
      Bare(2, "sequence"), CondLine(3, "EnemyIsTelegraphing", <<"HeavySlam">>), TaskLine(3, "Defend")>>

\* a child indented by three spaces
BadIndentText == <<Bare(0, "root"), <<SP, SP, SP, "selector">>, TaskLine(2, "Attack")>>

\* children two levels below their parent, a blank line, trailing spaces
LooseText ==
    <<Composite(0, "Root"), Bare(2, "selector") \o <<SP, SP>>, << >>,
      Bare(4, "sequence"), CondLine(6, "HasTP", <<"30">>), TaskLine(5, "PowerStrike"),
      <<SP, SP>>, TaskLine(3, "Attack")>>

\* a text that starts with the selector
NoRootText == <<Composite(0, "selector"), TaskLine(1, "Attack")>>

\* a text whose first line is a task
TaskOnlyText == <<TaskLine(0, "Defend")>>

\* the empty text and a text of blank lines
EmptyText == << >>
BlankText == <<<<SP, SP>>, << >>>>

\* names the registry does not know, an argument that is no number, a
\* parenthesis that is never closed
UnknownNamesText ==
    <<Bare(0, "root"), Bare(1, "selector"),
      Bare(2, "sequence"), CondLine(3, "IsEnemyStunned", << >>), TaskLine(3, "Heal"),
      Bare(2, "sequence"), CondLine(3, "HasTP", <<"plenty">>), TaskLine(3, "PowerStrike"),
      Bare(2, "sequence"), Indent(3) \o <<"condition", SP, ":", SP, "HasMP", "(", "20">>,
      TaskLine(3, "FireSpell"),
      Bare(2, "sequence"), TaskLine(3, "Flee"), TaskLine(3, "Defend"),
      TaskLine(2, "Taunt"),
      TaskLine(2, "Attack")>>

\* a sequence whose last task is unknown
TrailingUnknownText ==
    <<Bare(0, "root"), Bare(1, "selector"),
      Bare(2, "sequence"), CondLine(3, "HasTP", <<"30">>), TaskLine(3, "PowerStrike"),
      TaskLine(3, "Flee"),
      TaskLine(2, "Defend")>>

\* scan in the opening turn, attack afterwards (test_turn_early_condition)
OpeningText ==
    <<Bare(0, "root"), Bare(1, "selector"),
      Bare(2, "sequence"), CondLine(3, "IsTurnEarly", <<"1">>), TaskLine(3, "Scan"),
      TaskLine(2, "Attack")>>

\* a sequence whose last child is a selector that follows a task
TrailingCompositeText ==
    <<Bare(0, "root"), Bare(1, "sequence"),
      TaskLine(2, "Attack"),
      Bare(2, "selector"),
      Bare(3, "sequence"), CondLine(4, "IsPlayerHPLow", <<"30">>), TaskLine(4, "Defend")>>

\* heal first, then attack, every composite written with its colon
ColonFallbackText ==
    <<Composite(0, "root"), Composite(1, "selector"),
      Composite(2, "sequence"), CondLine(3, "IsPlayerHPLow", <<"30">>), TaskLine(3, "Heal"),
      TaskLine(2, "Attack")>>

\* the last branch of the selector is a sequence that ends with a task line
ColonNoFallbackText ==
    <<Composite(0, "root"), Composite(1, "selector"),
      Composite(2, "sequence"), CondLine(3, "IsPlayerHPLow", <<"30">>), TaskLine(3, "Heal"),
      Composite(2, "sequence"), CondLine(3, "HasTP", <<"30">>), TaskLine(3, "PowerStrike"),
      << >>>>

\* the last line is a condition
ColonConditionLastText ==
    <<Composite(0, "root"), Composite(1, "selector"),
      TaskLine(2, "Attack"), CondLine(2, "CanHeal", << >>)>>

\* a name the strict validator refuses
ColonRefusedNameText ==
    <<Composite(0, "root"), Composite(1, "selector"),
      Composite(2, "sequence"), CondLine(3, "isPlayerHPLow", <<"30">>), TaskLine(3, "Heal"),
      TaskLine(2, "Attack")>>

\* nine characters
ShortText == <<Composite(0, "root"), <<"ab">>>>

ValidatorTexts ==
    {ColonFallbackText, ColonNoFallbackText, ColonConditionLastText, ColonRefusedNameText,
     ShortText}

BTTexts ==
    PolicyTexts \cup {HealFirstText, GuardText, ReactOnlyText, BadIndentText, LooseText,
                      NoRootText, TaskOnlyText, EmptyText, BlankText, UnknownNamesText,
                      TrailingUnknownText, OpeningText, TrailingCompositeText}

\* the combat states the trees are evaluated against
BTStates ==
    {[NewState("FireGolem") EXCEPT !.turn_count = n, !.player_hp = hp, !.player_res.mp = mp,
                                   !.player_res.tp = tp, !.heal_cooldown = cd,
                                   !.telegraphed_action = tl] :
        n \in 0..MaxTurnSeen, hp \in {10, 45, 100}, mp \in {20, 30, 100}, tp \in {10, 50},
        cd \in {0, 2}, tl \in {None, "HeavySlam", "ThunderStrike"}}

InitBT ==
    /\ pc = "bt_load"
    /\ state \in BTStates
    /\ tree = NoTree
    /\ log = [action |-> None, trace |-> << >>]
    /\ game_over = FALSE
    /\ victory = FALSE
    /\ result = "none"
    /\ seed = 0
    /\ turn = 0

\* create_bt_executor_from_dsl: no executor when the parser returns None
LoadText ==
    /\ pc = "bt_load"
    /\ \E text \in BTTexts :
         LET p == parse_bt_dsl(text)
         IN  /\ tree' = p.nodes
             /\ pc' = IF p.ok THEN "bt_ready" ELSE "bt_rejected"
    /\ UNCHANGED <<state, game_over, victory, result, seed, log, turn>>

\* BTExecutor.execute: the action and the trace; no evaluate() or execute()
\* of bt_nodes.py assigns to the state
ExecuteTree ==
    /\ pc = "bt_ready"
    /\ log' = Execute(tree, state)
    /\ pc' = "bt_done"
    /\ UNCHANGED <<state, game_over, victory, result, tree, seed, turn>>

\* print the tree and parse the output: parse_bt_dsl(repr(root))
Reserialize ==
    /\ pc = "bt_ready"
    /\ \E text \in {Repr(tree)} :
         log' = [text |-> text, reparsed |-> parse_bt_dsl(text)]
    /\ pc' = "bt_printed"
    /\ UNCHANGED <<state, game_over, victory, result, tree, seed, turn>>

\* _validate_bt on a generated text, by both agents; the tree is the one the
\* runner's parser builds from the same text
ValidateText ==
    /\ pc = "bt_load"
    /\ \E text \in BTTexts \cup ValidatorTexts :
         /\ log' = [text |-> text, valid |-> ValidateBT(text),
                    valid_strict |-> ValidateBTStrict(text)]
         /\ tree' = parse_bt_dsl(text).nodes
    /\ pc' = "bt_validated"
    /\ UNCHANGED <<state, game_over, victory, result, seed, turn>>

NextBT == LoadText \/ ExecuteTree \/ Reserialize \/ ValidateText

SpecBT == InitBT /\ [][NextBT]_vars

\* the nodes of the subtree rooted at i
RECURSIVE Subtree(_, _)
Subtree(t, i) ==
    {i} \cup UNION {Subtree(t, t[i].children[k]) : k \in DOMAIN t[i].children}

InTrace(tr, ev, n) == \E j \in DOMAIN tr : tr[j] = Ev(ev, n)
Touched(tr, n) == \E j \in DOMAIN tr : tr[j].node = n

\* node i of tree t has kind k and, for a leaf, the given parameter
IsLeaf(t, i, kind, param) == Kind(t, i) = <<kind>> /\ t[i].param = param
NameOf(t, i) == IF t[i].param = << >> THEN "" ELSE t[i].param[1]

\* the first branch of the selector under the root, 0 if there is none
FirstBranch(t) ==
    IF t # << >> /\ Kind(t, 1) = <<"root">> /\ t[1].children # << >>
       /\ Kind(t, t[1].children[1]) = <<"selector">> /\ t[t[1].children[1]].children # << >>
    THEN t[t[1].children[1]].children[1]
    ELSE 0

\* in the evaluated tree, sequence i reached its k-th child, a condition that
\* is not the last child and is false in the state
FailedAt(i, k) ==
    /\ Kind(tree, i) = <<"sequence">>
    /\ k \in 1..(Len(tree[i].children) - 1)
    /\ Kind(tree, tree[i].children[k]) = <<"condition">>
    /\ Touched(log.trace, tree[i].children[k])
    /\ ~EvaluateCondition(tree[tree[i].children[k]], state)

\* the sequences of the evaluated tree that met a false non-final condition
\* yielded none and evaluated no later child, nor anything below one
C4_Aborts ==
    pc = "bt_done" =>
        \A i \in DOMAIN tree : \A k \in DOMAIN tree[i].children :
            FailedAt(i, k) =>
                /\ ExecuteNode(tree, i, state).action = None
                /\ InTrace(log.trace, "condition_failed", tree[i].children[k])
                /\ \A j \in (k + 1)..Len(tree[i].children) :
                     \A d \in Subtree(tree, tree[i].children[j]) : ~Touched(log.trace, d)

\* C4: for every sequence and state, when a non-final condition child is
\* false the sequence yields none and no child after that condition is
\* evaluated, and the evaluation leaves the combat state unchanged
C4_FalseConditionAbortsSequence ==
    /\ []C4_Aborts
    /\ [][pc = "bt_ready" => state' = state]_vars

\* a sequence passed its first condition and stopped at its second
C4_Witness ==
    /\ pc = "bt_done"
    /\ \E i \in DOMAIN tree : \E k \in DOMAIN tree[i].children :
         /\ k > 1
         /\ FailedAt(i, k)
         /\ InTrace(log.trace, "condition_passed", tree[i].children[k - 1])

\* the first branch is sequence[IsPlayerHPLow, CanHeal, task Heal]
HealBranchFirst(t) ==
    LET b == FirstBranch(t)
    IN  /\ b # 0
        /\ Kind(t, b) = <<"sequence">>
        /\ Len(t[b].children) = 3
        /\ Kind(t, t[b].children[1]) = <<"condition">> /\ NameOf(t, t[b].children[1]) = "IsPlayerHPLow"
        /\ Kind(t, t[b].children[2]) = <<"condition">> /\ NameOf(t, t[b].children[2]) = "CanHeal"
        /\ IsLeaf(t, t[b].children[3], "task", <<"Heal", "(", ")">>)

\* the player is at 10% health and able to heal
NeedsHeal(st) ==
    st.player_hp * 10 = PlayerMaxHP /\ st.heal_cooldown = 0 /\ st.player_res.mp >= HealCost

\* C5: an evaluated selector returns the action of its first child, in
\* declared order, that yields one, and none if no child does; with the
\* player at 10% health and able to heal, a selector under the root whose
\* first branch is the heal branch returns Heal
C5_SelectorFirstSuccess ==
    pc = "bt_done" =>
        /\ \A i \in DOMAIN tree :
             (Kind(tree, i) = <<"selector">> /\ Touched(log.trace, i)) =>
                 LET kids == tree[i].children
                     act(k) == ExecuteNode(tree, kids[k], state).action
                     r == ExecuteNode(tree, i, state).action
                 IN  /\ (\A k \in DOMAIN kids : act(k) = None) => r = None
                     /\ \A k \in DOMAIN kids :
                          (act(k) # None /\ \A j \in 1..(k - 1) : act(j) = None) => r = act(k)
                     /\ (i = tree[1].children[1] /\ Kind(tree, 1) = <<"root">>) => log.action = r
        /\ (HealBranchFirst(tree) /\ NeedsHeal(state)) => log.action = "Heal"

\* the heal branch comes first, the player needs the heal, and Heal is returned
C5_Witness ==
    /\ pc = "bt_done"
    /\ HealBranchFirst(tree)
    /\ NeedsHeal(state)
    /\ log.action = "Heal"
    /\ \E k \in DOMAIN tree[tree[1].children[1]].children :
         k > 1 /\ ExecuteNode(tree, tree[tree[1].children[1]].children[k], state).action # None

\* C6: the tree parsed from 'root :' / '    selector :' / '        task :
\* Attack()' returns Attack for every combat state
C6_AttackTextReturnsAttack ==
    (pc = "bt_done" /\ tree = parse_bt_dsl(AttackText).nodes) => log.action = "Attack"

\* the first branch is sequence[EnemyIsTelegraphing(HeavySlam), Defend()]
DefendBranchFirst(t) ==
    LET b == FirstBranch(t)
    IN  /\ b # 0
        /\ Kind(t, b) = <<"sequence">>
        /\ Len(t[b].children) = 2
        /\ IsLeaf(t, t[b].children[1], "condition", <<"EnemyIsTelegraphing", "(", "HeavySlam", ")">>)
        /\ IsLeaf(t, t[b].children[2], "task", <<"Defend", "(", ")">>)

\* C7: with HeavySlam telegraphed, a tree whose first selector branch is
\* sequence[EnemyIsTelegraphing(HeavySlam), Defend()] returns Defend
C7_DefendsAgainstHeavySlam ==
    (pc = "bt_done" /\ DefendBranchFirst(tree) /\ state.telegraphed_action = "HeavySlam")
        => log.action = "Defend"

\* such a tree was evaluated with HeavySlam telegraphed and chose Defend
C7_Witness ==
    /\ pc = "bt_done"
    /\ DefendBranchFirst(tree)
    /\ state.telegraphed_action = "HeavySlam"
    /\ log.action = "Defend"
    /\ InTrace(log.trace, "condition_passed", tree[FirstBranch(tree)].children[1])

----------------------------------------------------------------------------
(* One player attack against an enemy of each element *)

\* the element execute_player_action passes to _calculate_damage
ElementOf(action) ==
    CASE action = "FireSpell" -> "Fire"
      [] action = "IceSpell" -> "Ice"
      [] action = "LightningSpell" -> "Lightning"
      [] OTHER -> "Neutral"

StatusSets ==
    {NoStatus, <<Effect("AttackDown", 3, 0)>>, <<Effect("Paralyze", 2, 0)>>,
     <<Effect("AttackDown", 3, 0), Effect("Paralyze", 2, 0)>>}

\* the combat states the attack is made in
ElemStates ==
    {[NewState("FireGolem") EXCEPT !.turn_count = 1, !.enemy_element = el,
                                   !.enemy_element_duration = IF el = "Neutral" THEN 0 ELSE 2,
                                   !.player_status = ps, !.enemy_hp = hp, !.player_res.mp = mp] :
        el \in Elements, ps \in StatusSets, hp \in {EnemyMaxHP, 30}, mp \in {100, 10}}

\* the same state with a Neutral enemy
NeutralTwin(st) == [st EXCEPT !.enemy_element = "Neutral"]

HealthRemoved(before, after) == before.enemy_hp - after.enemy_hp

InitElem ==
    /\ pc = "elem_ready"
    /\ state \in ElemStates
    /\ tree = NoTree
    /\ log = [action |-> None]
    /\ game_over = FALSE
    /\ victory = FALSE
    /\ result = "none"
    /\ seed = 0
    /\ turn = 0

\* execute_player_action on the state and on its Neutral twin, with the same
\* rolls; the log keeps the multiplier, the damage before defense and the
\* health removed in both
CastSpell ==
    /\ pc = "elem_ready"
    /\ \E action \in {"Attack", "FireSpell", "IceSpell", "LightningSpell"} :
       \E ms \in Rolls(HasStatus(state.player_status, "Paralyze")) :
       \E pp \in Rolls(action # "Attack") :
         LET rnd == Rnd(0, 0, pp, ms, FALSE, FALSE)
             real == ExecutePlayerAction(state, action, rnd)
             twin == ExecutePlayerAction(NeutralTwin(state), action, rnd)
         IN  /\ state' = real.st
             /\ log' = [action |-> action,
                        attack |-> ElementOf(action),
                        target |-> state.enemy_element,
                        mult |-> calculate_elemental_multiplier(ElementOf(action),
                                                                state.enemy_element),
                        success |-> real.res.success,
                        missed |-> ms,
                        raw |-> PlayerActionBody(state, action, rnd).res.damage,
                        twin_raw |-> PlayerActionBody(NeutralTwin(state), action, rnd).res.damage,
                        removed |-> HealthRemoved(state, real.st),
                        twin_removed |-> HealthRemoved(NeutralTwin(state), twin.st),
                        killed |-> ~IsAlive(real.st.enemy_hp) \/ ~IsAlive(twin.st.enemy_hp)]
    /\ pc' = "elem_done"
    /\ UNCHANGED <<game_over, victory, result, tree, seed, turn>>

NextElem == CastSpell

SpecElem == InitElem /\ [][NextElem]_vars

Times(m, num, den) == m.num * den = num * m.den

IceOnFire ==
    /\ pc = "elem_done"
    /\ log.action = "IceSpell"
    /\ log.target = "Fire"
    /\ ~log.killed

\* C10 as stated: the health an IceSpell removes from a Fire enemy is exactly
\* 1.5 times what it removes from the Neutral twin
C10_RemovedIsOneAndAHalf ==
    IceOnFire => 2 * log.removed = 3 * log.twin_removed

\* C10 amended: the damage before defense is 1.5 times (rounded down) that
\* against the Neutral twin; the health removed is that damage less the
\* enemy's defense, not below 0, on both sides
C10_OneAndAHalfBeforeDefense ==
    IceOnFire =>
        /\ log.raw = (3 * log.twin_raw) \div 2
        /\ log.removed = Max(0, log.raw - EnemyDefense)
        /\ log.twin_removed = Max(0, log.twin_raw - EnemyDefense)

\* at attack 15 the spell removes 34 from the Fire enemy and 20 from the twin
C10_Witness ==
    /\ IceOnFire
    /\ log.success
    /\ log.raw = 42 /\ log.twin_raw = 28
    /\ log.removed = 34 /\ log.twin_removed = 20

----------------------------------------------------------------------------
(* Status lists over a game *)

\* the positions of ailment a in a status list
Instances(list, a) == {i \in DOMAIN list : list[i].ailment = a}

OnePerAilment(list) == \A i, j \in DOMAIN list : list[i].ailment = list[j].ailment => i = j

\* the effect a player spell applies when its 25% roll succeeds
SpellAilment(applied) ==
    CASE applied = "Burn" -> Effect("Burn", 3, BurnDamage)
      [] applied = "Freeze" -> Effect("Freeze", 1, 0)
      [] applied = "Paralyze" -> Effect("Paralyze", 2, 0)

\* the last turn's player spell landed its ailment on the enemy
PlayerApplied ==
    /\ pc = "game"
    /\ log.result \in {"continue", "player_win", "player_death"}
    /\ log.player.status_applied \in {"Burn", "Freeze", "Paralyze"}

\* the last turn's enemy action put Attack Down on the player
EnemyDebuffed ==
    /\ pc = "game"
    /\ log.result \in {"continue", "player_death"}
    /\ log.acted
    /\ log.enemy.status_applied = "Attack Down"

\* the one instance of ailment e.ailment in the list is e
HoldsOnly(list, e) ==
    /\ Cardinality(Instances(list, e.ailment)) = 1
    /\ \A i \in Instances(list, e.ailment) : list[i] = e

\* C11: after any sequence of turns each combatant's status list holds at
\* most one effect per ailment; an application, on an active ailment or not,
\* leaves exactly one instance with the duration and value just applied
C11_OneEffectPerAilment ==
    /\ pc = "game" => OnePerAilment(state.player_status) /\ OnePerAilment(state.enemy_status)
    /\ PlayerApplied =>
           HoldsOnly(log.post_player.enemy_status, SpellAilment(log.player.status_applied))
    /\ EnemyDebuffed => HoldsOnly(log.post_enemy.player_status, Effect("AttackDown", 3, 0))

\* a spell landed Burn on an enemy that was still burning from an earlier one
C11_Witness ==
    /\ PlayerApplied
    /\ log.player.status_applied = "Burn"
    /\ \E i \in DOMAIN log.pre_player.enemy_status :
         /\ log.pre_player.enemy_status[i].ailment = "Burn"
         /\ log.pre_player.enemy_status[i].duration < 3
    /\ HoldsOnly(log.post_player.enemy_status, Effect("Burn", 3, BurnDamage))

----------------------------------------------------------------------------
(* Serializing a parsed tree *)

\* C12: for every text parse_bt_dsl accepts, parsing the serialized tree is
\* accepted and yields the same tree: the same children at every node (the
\* nodes are numbered in line order both times) and the same node_type and
\* param
C12_ReparseYieldsSameTree ==
    pc = "bt_printed" => (log.reparsed.ok /\ log.reparsed.nodes = tree)

\* a tree with leaves below composites whose serialization is none of the
\* texts that were loaded, parsed back to itself
C12_Witness ==
    /\ pc = "bt_printed"
    /\ log.text \notin BTTexts
    /\ Len(tree) >= 6
    /\ \E i \in DOMAIN tree : tree[i].param # << >> /\ tree[i].children = << >>
    /\ log.reparsed.nodes = tree

----------------------------------------------------------------------------
(* Health bounds *)

HealthInRange(st) ==
    /\ 0 <= st.player_hp /\ st.player_hp <= PlayerMaxHP
    /\ 0 <= st.enemy_hp /\ st.enemy_hp <= EnemyMaxHP

\* C13: in every reachable state, and after each step inside a turn (damage
\* over time, the player's action, the enemy's action, the hit on the
\* player), both combatants have 0 <= current_hp <= max_hp
C13_HealthWithinBounds ==
    pc = "game" =>
        /\ HealthInRange(state)
        /\ HealthInRange(log.pre_player)
        /\ HealthInRange(log.post_player)
        /\ HealthInRange(log.post_enemy)

\* the player's Heal restored less than its 45 because it stopped at max_hp
C13_Witness ==
    /\ pc = "game"
    /\ log.player.action = "Heal"
    /\ log.player.success
    /\ log.pre_player.player_hp + HealAmount > PlayerMaxHP
    /\ log.post_player.player_hp = PlayerMaxHP

----------------------------------------------------------------------------
(* The first line of a text *)

\* the first word of the root node's kind, "" when the kind is empty
RootWord(t) == IF t[1].node_type = << >> THEN "" ELSE LowerTok(t[1].node_type[1])

\* C14: parse_bt_dsl returns a tree only for a text whose first non-blank
\* line has depth 0 and kind root; a text that starts with another kind, or
\* an empty or blank text, is rejected
C14_AcceptsOnlyRootFirst ==
    pc = "bt_ready" => (tree # NoTree /\ RootWord(tree) = "root")

----------------------------------------------------------------------------
(* Names the registry does not know *)

ConditionNames == PlainConditions \cup NumericConditions \cup NamedConditions

\* the condition's name is not in the registry, its parenthesis is not
\* closed, or its numeric argument is no number
MalformedCondition(node) ==
    LET p == node.param
        open == Index(p, "(")
        close == RIndex(p, ")")
        name == IF open = 0 THEN p ELSE SubSeq(p, 1, open - 1)
        arg == IF open = 0 \/ close = 0 THEN << >> ELSE Strip(SubSeq(p, open + 1, close - 1))
    IN  \/ Len(name) # 1
        \/ name[1] \notin ConditionNames
        \/ (open # 0 /\ close = 0)
        \/ (name[1] \in NumericConditions /\ arg # << >>
            /\ ~(Len(arg) = 1 /\ arg[1] \in DOMAIN NumTable))

\* the task's name is not in the registry
UnknownTask(node) ==
    LET p == Strip(node.param)
        open == Index(p, "(")
        name == IF open = 0 THEN p ELSE SubSeq(p, 1, open - 1)
    IN  \/ Len(name) # 1
        \/ name[1] \notin PlayerActions \cup {"LightAttack", "HeavyAttack"}

\* node c of the evaluated tree is a leaf with an unknown or malformed name
UnknownLeaf(c) ==
    \/ Kind(tree, c) = <<"condition">> /\ MalformedCondition(tree[c])
    \/ Kind(tree, c) \in {<<"task">>, <<"action">>} /\ UnknownTask(tree[c])

\* the unknown leaf itself fails: the condition is false, the action is none
LeafFails(c) ==
    IF Kind(tree, c) = <<"condition">> THEN ~EvaluateCondition(tree[c], state)
    ELSE ExecuteAction(tree[c], state) = None

\* C15: an unknown or malformed condition evaluates to false and an unknown
\* action resolves to none; the selector that owns the leaf goes on to its
\* next child, and the sequence that owns it yields none
C15_UnknownLeafFailsItsComposite ==
    pc = "bt_done" =>
        \A i \in DOMAIN tree : \A k \in DOMAIN tree[i].children :
            (UnknownLeaf(tree[i].children[k]) /\ Touched(log.trace, tree[i].children[k])) =>
                /\ LeafFails(tree[i].children[k])
                /\ (Kind(tree, i) = <<"selector">> /\ k < Len(tree[i].children))
                       => Touched(log.trace, tree[i].children[k + 1])
                /\ Kind(tree, i) = <<"sequence">> => ExecuteNode(tree, i, state).action = None

----------------------------------------------------------------------------
(* A turn in which the tree decides nothing *)

\* the last take_action call ran a player phase, and the tree had decided
\* none for the state the call started from
DecidedNone ==
    /\ pc = "game"
    /\ log.result \in {"continue", "player_win", "player_death"}
    /\ Execute(tree, log.start).action = None

\* C16: a turn for which the tree decides none is processed with Attack as
\* the player's action: the turn counter advances, the action of the turn's
\* report is Attack, and unless a Freeze skips it the attack succeeds, costs
\* nothing and gains its 15 TP
C16_NoneBecomesAttack ==
    DecidedNone =>
        /\ state.turn_count = log.start.turn_count + 1
        /\ log.player.action = "Attack"
        /\ log.player.cost_tp = 0 /\ log.player.cost_mp = 0
        /\ ~log.player.skipped =>
               /\ log.player.success
               /\ log.post_player.player_res = GainTP(log.pre_player.player_res, 15)

\* the tree decided none and the substituted Attack took health off the enemy
C16_Witness ==
    /\ DecidedNone
    /\ log.player.action = "Attack"
    /\ log.player.damage > 0
    /\ log.post_player.enemy_hp = log.pre_player.enemy_hp - log.player.damage

----------------------------------------------------------------------------
(* The turn that defeats the enemy *)

\* the last process_turn call ran the player's action
PlayerPhaseRan ==
    /\ pc = "game"
    /\ log.result \in {"continue", "player_win", "player_death"}

\* C17: when enemy health is 0 after the player's action, process_turn
\* returns player_win and the enemy does not act: the whole state, and with
\* it player health, player statuses, enemy resources, the action history
\* and the stored telegraph, is what the player's action left
C17_DefeatedEnemyDoesNotAct ==
    (PlayerPhaseRan /\ log.post_player.enemy_hp = 0) =>
        /\ log.result = "player_win"
        /\ ~log.acted
        /\ log.enemy = NoEnemyResult
        /\ state = log.post_player
        /\ state.player_hp = log.pre_player.player_hp
        /\ state.enemy_res = log.pre_player.enemy_res
        /\ state.action_history = log.pre_player.action_history
        /\ state.telegraphed_action = log.start.telegraphed_action

\* the enemy fell with a telegraphed action still stored, and never ran it
C17_Witness ==
    /\ PlayerPhaseRan
    /\ log.post_player.enemy_hp = 0
    /\ log.result = "player_win"
    /\ state.telegraphed_action # None
    /\ state.telegraphed_action = log.start.telegraphed_action
    /\ state.enemy_res = Regenerate(log.start.enemy_res)
    /\ state.action_history = log.start.action_history

----------------------------------------------------------------------------
(* Damage over time *)

\* C18: in each turn that a combatant starts with an active Burn, the tick
\* lowers its current_hp by the full 5, whatever its defense, stopping at 0
C18_BurnTakesFullAmount ==
    PlayerPhaseRan =>
        /\ HasStatus(log.start.enemy_status, "Burn") =>
               log.pre_player.enemy_hp = Max(0, log.start.enemy_hp - BurnDamage)
        /\ HasStatus(log.start.player_status, "Burn") =>
               log.pre_player.player_hp = Max(0, log.start.player_hp - BurnDamage)

----------------------------------------------------------------------------
(* The validator *)

\* the first word of node i's kind
KindWord(t, i) == IF t[i].node_type = << >> THEN "" ELSE LowerTok(t[i].node_type[1])

\* the tree has a selector under its root whose last child is a task
LastBranchIsTask(t) ==
    /\ t # NoTree
    /\ t[1].children # << >>
    /\ KindWord(t, t[1].children[1]) = "selector"
    /\ t[t[1].children[1]].children # << >>
    /\ KindWord(t, t[t[1].children[1]].children[Len(t[t[1].children[1]].children)]) = "task"

\* C19: _validate_bt accepts a text only if its first line is "root :" and
\* the last child of the top-level selector is a task; a text whose last
\* top-level branch is a sequence or a condition is rejected
C19_AcceptsOnlyTaskFallback ==
    (pc = "bt_validated" /\ (log.valid \/ log.valid_strict)) =>
        /\ StartsWith(StripText(log.text)[1], <<"root", SP, ":">>)
        /\ LastBranchIsTask(tree)

----------------------------------------------------------------------------
(* After the game has ended *)

TerminalResults == {"player_win", "player_death", "turn_limit"}

\* C20: player_win, player_death and turn_limit are absorbing: game_over
\* holds exactly from the call that produced one of them, and from then on
\* every take_action call returns an error and changes nothing of the combat
\* state, the flags or the last turn's report
C20_TerminalIsAbsorbing ==
    /\ [](pc = "game" => (game_over <=> log.result \in TerminalResults))
    /\ [][(pc = "game" /\ game_over) =>
             /\ result' = "error"
             /\ state' = state
             /\ game_over' /\ victory' = victory
             /\ log' = log]_vars

\* take_action was called on a game that had ended at the turn limit: it
\* returned an error and the state is still the one the last turn left
C20_Witness ==
    /\ pc = "game"
    /\ game_over
    /\ result = "error"
    /\ log.result = "turn_limit"
    /\ state.turn_count = TURN_LIMIT + 1
    /\ state.turn_count = log.start.turn_count + 1

----------------------------------------------------------------------------
(* Freeze on the player *)

\* C21: when the enemy froze the player in the previous turn and the game
\* continued, the player's action of this turn is consumed as a no-op: it is
\* skipped, deals no damage, spends no resource, applies no status, and the
\* Freeze is gone afterwards
C21_FrozenPlayerLosesAction ==
    (PlayerPhaseRan /\ HasStatus(log.start.player_status, "Freeze")) =>
        /\ log.player.skipped
        /\ log.player.damage = 0
        /\ log.post_player.player_res = log.pre_player.player_res
        /\ log.player.status_applied = None
        /\ ~HasStatus(log.post_player.player_status, "Freeze")

----------------------------------------------------------------------------
(* Paralyze *)

\* some outcome of the paralyze roll makes an attack of this base damage deal
\* zero damage
CanMiss(st, base, element, attacker) ==
    \E miss \in BOOLEAN : CalculateDamage(st, base, element, attacker, miss).damage = 0

\* C22: Paralyze acts on whichever side attacks: a plain Attack made by a
\* paralyzed player can miss and deal zero damage, and so can a damaging
\* action executed by a paralyzed enemy
C22_ParalyzeActsOnBothSides ==
    /\ (PlayerPhaseRan /\ log.player.action = "Attack"
          /\ HasStatus(log.pre_player.player_status, "Paralyze"))
       => CanMiss(log.pre_player, 15, "Neutral", "player")
    /\ (PlayerPhaseRan /\ log.acted /\ log.enemy.spent
          /\ EnemyBase(log.enemy.action).base > 0
          /\ HasStatus(log.pre_enemy.enemy_status, "Paralyze"))
       => CanMiss(log.pre_enemy, EnemyBase(log.enemy.action).base,
                  EnemyBase(log.enemy.action).element, "enemy")

----------------------------------------------------------------------------
(* Temporary enemy element *)

\* the enemy has an element exactly while the counter is positive, and the
\* counter is within 0..3
ElementMatchesCounter(st) ==
    /\ (st.enemy_element # "Neutral") <=> (st.enemy_element_duration > 0)
    /\ st.enemy_element_duration \in 0..ElementTurns

\* the enemy action of the logged turn granted an element
ElementGranted == log.acted /\ log.enemy.spent /\ GrantedElement(log.enemy.action) # None

----------------------------------------------------------------------------
(* Defensive stance *)

\* the damage the enemy action of the logged turn computed, before the
\* player's stance and defense
RawEnemyDamage ==
    IF log.acted /\ log.enemy.spent
    THEN CalculateDamage(log.pre_enemy, EnemyBase(log.enemy.action).base,
                         EnemyBase(log.enemy.action).element, "enemy", FALSE).damage
    ELSE 0

\* the player's action of the logged turn was a Defend that took effect
Defended == log.player.action = "Defend" /\ log.player.success

\* C24: the stance covers exactly the enemy action of the turn in which Defend
\* was chosen: that action's damage is halved before defense is subtracted, a
\* turn without Defend takes the hit unhalved, and after every turn that
\* returns continue the player no longer has Defending
C24_StanceCoversOneEnemyAction ==
    /\ (pc = "game" /\ log.result \in {"none", "continue"}) =>
         ~HasStatus(state.player_status, "Defending")
    /\ PlayerPhaseRan => ~HasStatus(log.pre_player.player_status, "Defending")
    /\ (PlayerPhaseRan /\ log.acted) =>
         /\ HasStatus(log.pre_enemy.player_status, "Defending") <=> Defended
         /\ log.enemy.damage =
              IF Defended THEN Max(0, (RawEnemyDamage \div 2) - PlayerDefense)
                          ELSE Max(0, RawEnemyDamage - PlayerDefense)
         /\ state.player_hp = Max(0, log.pre_enemy.player_hp - log.enemy.damage)

\* a defended turn in which halving first and halving last differ, followed
\* by continue
C24_Witness ==
    /\ PlayerPhaseRan /\ log.acted /\ Defended
    /\ log.result = "continue"
    /\ RawEnemyDamage > 2 * PlayerDefense
    /\ log.enemy.damage = (RawEnemyDamage \div 2) - PlayerDefense
    /\ log.enemy.damage # (RawEnemyDamage - PlayerDefense) \div 2

----------------------------------------------------------------------------
(* Opening turn *)

\* the executor ran the tree of OpeningText
RanOpening == pc = "bt_done" /\ tree = parse_bt_dsl(OpeningText).nodes

\* C25: IsTurnEarly(1) is true only before any turn has been processed, so the
\* tree selector[ sequence[IsTurnEarly(1), Scan], Attack ] chooses Scan when
\* turn_count = 0 and Attack once a turn has been processed
C25_ScanOnlyInFirstTurn ==
    RanOpening => log.action = (IF state.turn_count = 0 THEN "Scan" ELSE "Attack")

----------------------------------------------------------------------------
(* Sequences *)

\* the executor ran the tree of TrailingCompositeText
RanTrailingComposite == pc = "bt_done" /\ tree = parse_bt_dsl(TrailingCompositeText).nodes

\* C26: a sequence yields an action only when every child succeeded; when the
\* final selector that follows the successful Attack task fails (the player's
\* health is not low), the sequence yields none, otherwise the selector's action
C26_SequenceNeedsEveryChild ==
    RanTrailingComposite =>
        log.action = (IF HpPctBelow(state.player_hp, PlayerMaxHP, 30) THEN "Defend" ELSE None)

----------------------------------------------------------------------------
(* Signposted heavy actions *)

\* C27: in every turn after the first, a heavy or special action the enemy
\* executes was the telegraph the decision tree could see when the player's
\* action for that turn was chosen
C27_HeavyActionWasTelegraphed ==
    (PlayerPhaseRan /\ log.start.turn_count >= 1 /\ log.acted /\ log.enemy.spent
       /\ log.enemy.action \in TELEGRAPHED_ACTIONS)
    => log.start.telegraphed_action = log.enemy.action

----------------------------------------------------------------------------
(* Element seen and element hit *)

\* EnemyWeakTo(Ice) on the state the tree decided on, and the IceSpell it
\* chose was cast
IceSpellOnWeakness ==
    /\ PlayerPhaseRan
    /\ EvalNamed("EnemyWeakTo", "Ice", log.start)
    /\ log.player.action = "IceSpell"
    /\ log.player.success

\* C28: the enemy element the tree observes when it decides is the element
\* the elemental multiplier uses when the action resolves: an IceSpell chosen
\* while EnemyWeakTo(Ice) is true receives the 1.5 multiplier
C28_ObservedElementIsUsed ==
    IceSpellOnWeakness =>
        /\ log.pre_player.enemy_element = log.start.enemy_element
        /\ calculate_elemental_multiplier("Ice", log.pre_player.enemy_element)
             = [num |-> 3, den |-> 2]

----------------------------------------------------------------------------
(* How a run ends *)

\* C29: when the run loop of run_game exits, game.game_over is true and the
\* last result is player_win, player_death or turn_limit; a combat that lasted
\* the full 35 turns without a win or a death ends with turn_limit
C29_RunEndsInTerminalOutcome ==
    pc = "run_done" =>
        /\ game_over
        /\ result \in TerminalResults
        /\ (turn = max_turns /\ result \notin {"player_win", "player_death"})
             => result = "turn_limit"

----------------------------------------------------------------------------
(* CanHeal as a gate *)

\* the player's action of the logged turn was a Heal that was not skipped
HealAttempted == PlayerPhaseRan /\ log.player.action = "Heal" /\ ~log.player.skipped

\* the logged action changed neither the player's resources, health nor cooldown
HealWasNoOp ==
    /\ ~log.player.success
    /\ log.player.cost_mp = 0
    /\ log.player.heal = 0
    /\ log.post_player.player_res = log.pre_player.player_res
    /\ log.post_player.player_hp = log.pre_player.player_hp
    /\ log.post_player.heal_cooldown = log.pre_player.heal_cooldown

\* C30: CanHeal() is a sound gate for Heal: a Heal chosen on a state where
\* CanHeal() is true succeeds when it resolves, unless Freeze skips the
\* action (30 MP spent, cooldown set to 3); and a Heal attempted while
\* heal_cooldown > 0 is a no-op that spends no MP
C30_CanHealIsSoundGate ==
    /\ (HealAttempted /\ EvalPlain("CanHeal", log.start)) =>
         /\ log.player.success
         /\ log.player.cost_mp = HealCost
         /\ log.post_player.player_res.mp = log.pre_player.player_res.mp - HealCost
         /\ log.post_player.heal_cooldown = HealCooldownTurns
    /\ (HealAttempted /\ log.pre_player.heal_cooldown > 0) => HealWasNoOp

\* a gated Heal that succeeded after the start of turn had regenerated MP
C30_Witness ==
    /\ HealAttempted
    /\ EvalPlain("CanHeal", log.start)
    /\ log.player.success
    /\ log.pre_player.player_res.mp > log.start.player_res.mp
    /\ log.post_player.heal_cooldown = HealCooldownTurns

====
